---- MODULE Spec2Model ----
(***************************************************************************)
(* MiSub subscription resolution pipeline.                                 *)
(*                                                                         *)
(* The subscription handler (handleMisubRequest), the refresh closure it   *)
(* hands to the cache manager, the response branches (NekoBox fallback,    *)
(* base64, converter callback, converter, converter-failure fallback) and  *)
(* the node aggregation are modelled from the sources.  The cache manager  *)
(* (resolveNodeListWithCache, setCache, generateCacheKey) and the          *)
(* converter client (getSubconverterCandidates, fetchFromSubconverter) are *)
(* imported by the handler but are not among the sources; they are         *)
(* modelled from sections 4.5 and 4.6 of the specification.                *)
(*                                                                         *)
(* Further specifications follow single calls: SpecFetch a call of         *)
(* fetchSubscriptionWithFallback, SpecAgg a run of generateCombinedNodeList *)
(* with its fetches settling in any order, SpecPrepend prependNodeName      *)
(* applied once and twice to a link, SpecLog the handler with the download *)
(* count of a profile written back, SpecRetry a call of retryFetch,        *)
(* SpecUserAgent the choice of the target format and getProcessedUserAgent. *)
(* SpecAggLive is SpecAgg under fair scheduling with response bodies that  *)
(* may never arrive, SpecLines the text processing of the aggregation,     *)
(* SpecMembership the selection of a profile's sources, SpecCount the      *)
(* download counter under concurrent requests, SpecMigrate the legacy      *)
(* /migrate route, SpecMigrateKVToD1 the KV to D1 migration, SpecKVPut a   *)
(* call of conditionalKVPut, SpecApi the session check of the /api routes. *)
(***************************************************************************)
EXTENDS Integers, Sequences, FiniteSets, TLC

\* ------------------------------------------------------------------ bounds
\* Last tick of the wall clock (Date.now()).
MaxTime == 1
\* Number of requests that may be in progress at the same time.
MaxConcurrent == 2
\* Highest maxRetries retryFetch is called with.
MaxRetriesBound == 2
\* Highest download count a profile reaches.
MaxDownloads == 1
\* Ticks a callback token is meant to live.
CallbackTokenLifetime == 1

RIDs == 1..MaxConcurrent

\* ------------------------------------------------------- stored configuration
\* Freshness window of a cache entry, in ticks (specification 4.5: "age below TTL").
TTL == 1

MyToken == "tk"
ProfileToken == "ptk"
ShortHost == "url.v1.mk"
LongHost == "long-converter-host"
Hosts == {"", ShortHost, LongHost}

\* '手动节点', the prefix of manual nodes
ManualPrefix == "manual"

\* A url is a scheme, as written, and what follows it; a manual node's url is
\* the node link itself.
\* A line is what precedes its '#' (body; "" for a blank line, "text" for a
\* line that is no node link), whether it has a '#', the display name after
\* it as its " - "-separated parts, whether white space surrounds the line,
\* and for a vmess link its JSON payload.
NoJson == [ok |-> FALSE, fields |-> <<>>, ws |-> FALSE]
Node(name, body) ==
  [name |-> name, body |-> body, frag |-> name # <<>>, pad |-> FALSE, json |-> NoJson]

\* A JSON text: its members in the order written, and whether it is written
\* with white space between them.
Json(fields, ws) == [ok |-> TRUE, fields |-> fields, ws |-> ws]

\* vmess://<base64 of a JSON text>
Vmess(json) == [name |-> <<>>, body |-> "vmess", frag |-> FALSE, pad |-> FALSE, json |-> json]

\* The sentinel line served for an expired profile; its name is '您的订阅已失效'.
DEFAULT_EXPIRED_NODE == Node(<<"expired">>, "trojan-sentinel")

\* The stored subscription list: a feed, a feed whose scheme is written in
\* upper case, and a manual node.
allMisubs ==
  << [id |-> "s1", scheme |-> "https", name |-> "A", enabled |-> TRUE,
      link |-> Node(<<>>, "")],
     [id |-> "s2", scheme |-> "HTTPS", name |-> "B", enabled |-> TRUE,
      link |-> Node(<<>>, "")],
     [id |-> "m1", scheme |-> "trojan", name |-> "M", enabled |-> TRUE,
      link |-> Node(<<"m">>, "trojan-m")] >>

\* The stored profile list: one enabled profile that expires after tick 0,
\* and a disabled one.
allProfiles ==
  << [id |-> "p1", name |-> "P", enabled |-> TRUE, subscriptions |-> {"s1"},
      manualNodes |-> {}, expiresAt |-> 0],
     [id |-> "p2", name |-> "Q", enabled |-> FALSE, subscriptions |-> {"s1"},
      manualNodes |-> {}, expiresAt |-> 0] >>

\* What a feed can answer when it is fetched.  The feed s1 answers nothing (a
\* failure, or no node line) or a REALITY node; the feed s2 answers its node.
Upstream(id) ==
  IF id = "s1" THEN {<<>>, <<Node(<<"n">>, "vless-security=reality")>>}
  ELSE {<<Node(<<"n">>, "ss-b")>>}

\* ------------------------------------------------------------- sequences
RECURSIVE Flatten(_)
Flatten(ss) == IF ss = <<>> THEN <<>> ELSE Head(ss) \o Flatten(Tail(ss))

Range(s) == {s[i] : i \in 1..Len(s)}

\* A list that keeps every occurrence.
Dedup_KeepsAll(s) == s

\* [...new Set(lines)]: each line once, at the place of its first occurrence.
RECURSIVE Dedup(_)
Dedup(s) ==
  IF s = <<>> THEN <<>>
  ELSE LET front == Dedup(SubSeq(s, 1, Len(s) - 1))
           last == s[Len(s)]
       IN IF last \in Range(front) THEN front ELSE Append(front, last)

IsPrefixSeq(a, b) == Len(a) <= Len(b) /\ a = SubSeq(b, 1, Len(a))

\* Array.prototype.map(s => s.name)
NamesOf(subs) == [i \in 1..Len(subs) |-> subs[i].name]

\* ------------------------------------------------------- node aggregation
\* String.prototype.toLowerCase on a scheme.
ToLowerCase(scheme) == IF scheme = "HTTPS" THEN "https" ELSE scheme

\* url.startsWith('http'), as the handler classifies a stored source.
StartsWithHttp(sub) == sub.scheme = "https"

\* url.toLowerCase().startsWith('http'), as the aggregation classifies it.
LowerStartsWithHttp(sub) == ToLowerCase(sub.scheme) = "https"

\* String.prototype.startsWith between the strings names are made of.
StrStartsWith(a, b) == a = b \/ <<a, b>> \in {<<"Ab", "A">>}

\* A test that never finds the prefix.
NameStartsWith_Never(name, prefix) == FALSE

\* decoded name .startsWith(prefix)
NameStartsWith(name, prefix) == name # <<>> /\ StrStartsWith(Head(name), prefix)

\* nodeConfig.ps || ''
JsonPs(fields) ==
  LET at == {i \in 1..Len(fields) : fields[i][1] = "ps"}
  IN IF at = {} THEN <<>> ELSE fields[CHOOSE i \in at : TRUE][2]

\* nodeConfig.ps = value: in place when the member exists, else a new last member.
JsonSetPs(fields, value) ==
  IF \E i \in 1..Len(fields) : fields[i][1] = "ps"
  THEN [i \in 1..Len(fields) |-> IF fields[i][1] = "ps" THEN <<"ps", value>> ELSE fields[i]]
  ELSE Append(fields, <<"ps", value>>)

\* JSON.stringify(JSON.parse(text)): the members in the order they were
\* written, no white space.
JsonStringify(fields) == Json(fields, FALSE)

\* atob of what follows 'vmess://' and JSON.parse of it succeed.
VmessDecodable(link) == link.body = "vmess" /\ link.json.ok /\ ~link.frag

\* decodeURIComponent throws URIError on a name that holds a malformed
\* percent sequence.
DecodeThrows(name) == "%bad" \in Range(name)

\* What stands for the URIError thrown in place of a returned link.
URIError == Node(<<>>, "URIError")

\* appendToFragment of prependNodeName
appendToFragment(link, prefix) ==
  IF link.frag /\ DecodeThrows(link.name) THEN URIError
  ELSE IF NameStartsWith(link.name, prefix) THEN link
  ELSE [link EXCEPT !.name = <<prefix>> \o link.name, !.frag = TRUE]

\* prependNodeName of [[path]].js and of modules/utils.js (the same text).
prependNodeName(link, prefix) ==
  IF prefix = "" THEN link
  ELSE IF VmessDecodable(link)
  THEN LET originalPs == JsonPs(link.json.fields)
           fields == IF NameStartsWith(originalPs, prefix) THEN link.json.fields
                     ELSE JsonSetPs(link.json.fields, <<prefix>> \o originalPs)
       IN [link EXCEPT !.json = JsonStringify(fields)]
  ELSE appendToFragment(link, prefix)

\* nodeRegex: a line that starts with an allow-listed scheme.
nodeRegex(link) == link.body \notin {"", "text"}

\* line.trim()
trimLine(link) == [link EXCEPT !.pad = FALSE]

\* normalizeVmessLink: the payload written again by JSON.stringify; the link
\* as it is when it is no vmess link or cannot be decoded.
normalizeVmessLink(link) ==
  IF VmessDecodable(link) THEN [link EXCEPT !.json = JsonStringify(link.json.fields)]
  ELSE link

\* A fetched line is kept unless the name after its '#' cannot be decoded or
\* includes 'https://'.
NameFilter(link) ==
  ~(link.frag /\ (DecodeThrows(link.name)
                    \/ \E i \in 1..Len(link.name) : link.name[i] = "https://x"))

\* processedManualNodes: the urls of the sources that are no feeds, trimmed,
\* node links only, vmess normalized, prefixed.
ManualNodes(prependSubName, misubs) ==
  LET IsManual(sub) == ~LowerStartsWithHttp(sub)
      manual == SelectSeq(misubs, IsManual)
      lines == SelectSeq([i \in 1..Len(manual) |-> trimLine(manual[i].link)], nodeRegex)
      Processed(link) ==
        IF prependSubName THEN prependNodeName(normalizeVmessLink(link), ManualPrefix)
        ELSE normalizeVmessLink(link)
  IN [i \in 1..Len(lines) |-> Processed(lines[i])]

\* What one feed contributes from the text it answered: trimmed node links
\* whose name passes the filter, prefixed with the feed's name.
ProcessSub(prependSubName, sub, text) ==
  LET trimmed == [i \in 1..Len(text) |-> trimLine(text[i])]
      validNodes == SelectSeq(SelectSeq(trimmed, nodeRegex), NameFilter)
      prefixed == [i \in 1..Len(validNodes) |-> prependNodeName(validNodes[i], sub.name)]
  IN IF prependSubName /\ sub.name # ""
     THEN IF URIError \in Range(prefixed) THEN <<>> ELSE prefixed
     ELSE validNodes

\* The last statement: manual nodes, then the feeds' contributions in the
\* order given, trimmed, without blank lines, every line once.
Combine(manual, subContents) ==
  LET lines == manual \o Flatten(subContents)
      trimmed == [i \in 1..Len(lines) |-> trimLine(lines[i])]
  IN Dedup(SelectSeq(trimmed, LAMBDA l : l.body # ""))

\* Processing the manual nodes throws: generateCombinedNodeList rejects.
ManualNodesThrow(prependSubName, misubs) ==
  URIError \in Range(ManualNodes(prependSubName, misubs))

\* The node list aggregated from misubs, where fetched[id] is the text the
\* feed id answered ('' when its fetch failed), for a list whose manual nodes
\* do not throw.
generateCombinedNodeList(prependSubName, misubs, fetched) ==
  LET httpSubs == SelectSeq(misubs, LowerStartsWithHttp)
  IN Combine(ManualNodes(prependSubName, misubs),
             [i \in 1..Len(httpSubs) |->
                ProcessSub(prependSubName, httpSubs[i], fetched[httpSubs[i].id])])

\* The ids of the sources the aggregation fetches.
FeedIds(misubs) == {misubs[i].id : i \in {j \in 1..Len(misubs) : LowerStartsWithHttp(misubs[j])}}

FetchResults(misubs) ==
  LET ids == FeedIds(misubs)
  IN {f \in [ids -> UNION {Upstream(id) : id \in ids}] : \A id \in ids : f[id] \in Upstream(id)}

\* ------------------------------------------------------------------ state
VARIABLES
  now,          \* the wall clock
  settings,     \* the stored settings record
  downloadCount,\* downloadCount of profile p1 in the stored profile list
  pendingPuts,  \* profile-list writes handed to waitUntil, not yet run
  cache,        \* the stored cache entry of each key
  handle,       \* the cache manager's in-flight refresh handle of each key
  bg,           \* background refreshes handed to waitUntil, not yet completed
  staleServed,  \* whether stale content of the key was served since its last refresh ended
  lastRefresh,  \* how the last refresh of the key ended, until the next one starts
  req,          \* the handler's local variables, per request in progress
  call          \* the call of a library function in progress: its inputs and locals

handlerVars == <<now, settings, downloadCount, pendingPuts, cache, handle, bg, staleServed,
                 lastRefresh, req>>
vars == <<now, settings, downloadCount, pendingPuts, cache, handle, bg, staleServed,
          lastRefresh, req, call>>

NoCall == [fn |-> "none"]

\* generateCacheKey(type, id)
generateCacheKey(type, id) == <<type, id>>
Keys == {generateCacheKey("token", MyToken), generateCacheKey("profile", "p1")}

NoEntry == [nodes |-> <<>>, sourceNames |-> <<>>, at |-> -1]
NoResp == [status |-> 0, kind |-> "none", nodes |-> <<>>, hdrs |-> {}, err |-> <<>>,
           via |-> ""]
Idle == [pc |-> "idle", token |-> "", pid |-> "", target |-> "", force |-> FALSE,
         cb |-> "none", neko |-> FALSE, expired |-> FALSE, nodes |-> <<>>,
         cacheHdr |-> "", tried |-> <<>>, log |-> <<>>, resp |-> NoResp]

Resp(status, kind, nodes, hdrs, err, via) ==
  [status |-> status, kind |-> kind, nodes |-> nodes, hdrs |-> hdrs, err |-> err,
   via |-> via]

PlainHeaders == {"Content-Type: text/plain; charset=utf-8", "Cache-Control: no-store, no-cache"}

\* ------------------------------------------------------- handler: identity
FindProfile(pid) == SelectSeq(allProfiles, LAMBDA p : p.id = pid)

\* now > new Date(profile.expiresAt)
IsProfileExpired(profile, t) == t > profile.expiresAt

\* The filter of functions/[[path]].js: the sources the profile lists,
\* enabled or not.
FilterByProfileLegacy(misubs, profile) ==
  LET belongs(item) ==
        IF StartsWithHttp(item) THEN item.id \in profile.subscriptions
        ELSE item.id \in profile.manualNodes
  IN SelectSeq(misubs, belongs)

\* The filter of the handler: the enabled sources whose id the profile lists,
\* in subscriptions when the url starts with 'http', in manualNodes otherwise.
FilterByProfile(misubs, profile) ==
  LET belongs(item) ==
        /\ item.enabled
        /\ \/ StartsWithHttp(item) /\ item.id \in profile.subscriptions
           \/ ~StartsWithHttp(item) /\ item.id \in profile.manualNodes
  IN SelectSeq(misubs, belongs)

\* The sources a profile selects from the stored list.
ProfileMisubs(profile) == FilterByProfile(allMisubs, profile)

ExpiredMisubs ==
  << [id |-> "expired-node", scheme |-> "trojan", name |-> "expired-name",
      enabled |-> FALSE, link |-> DEFAULT_EXPIRED_NODE] >>

\* targetMisubs of a request that passed the identity checks.
TargetMisubs(pid, expired) ==
  IF pid # "" THEN
    IF expired THEN ExpiredMisubs ELSE ProfileMisubs(Head(FindProfile(pid)))
  ELSE SelectSeq(allMisubs, LAMBDA s : s.enabled)

KeyOf(q) == generateCacheKey(IF q.pid # "" THEN "profile" ELSE "token",
                             IF q.pid # "" THEN q.pid ELSE q.token)

\* ------------------------------------------------------- refresh closure
\* sourceNames: the names of the sources the handler takes for feeds.
SourceNames(misubs) == NamesOf(SelectSeq(misubs, StartsWithHttp))

\* A put that stores the value and then throws.
StoragePut_WritesThenThrows(store, key, value, ok) ==
  [store |-> [store EXCEPT ![key] = value], threw |-> ~ok]

\* A put that swallows its error, as get does.
StoragePut_SwallowsError(store, key, value, ok) ==
  [store |-> IF ok THEN [store EXCEPT ![key] = value] ELSE store, threw |-> FALSE]

\* KVStorageAdapter.put / D1StorageAdapter.put: the value is stored, or the
\* store is left as it was and the error is thrown on.
StoragePut(store, key, value, ok) ==
  [store |-> IF ok THEN [store EXCEPT ![key] = value] ELSE store, threw |-> ~ok]

\* setCache(storageAdapter, cacheKey, nodes, sourceNames): the entry is replaced
\* whole and its freshness clock restarts.
setCache(c, k, nodes, names, t, ok) ==
  StoragePut(c, k, [nodes |-> nodes, sourceNames |-> names, at |-> t], ok)

\* refreshNodes: what one run of the refresh closure of a request with the
\* captured pid and expired flag aggregates from the answers fetched.
refreshNodes(pid, expired, fetched) ==
  generateCombinedNodeList(settings.prependSubName, TargetMisubs(pid, expired), fetched)

\* ------------------------------------------------------- cache manager
\* A cache manager that never takes an entry for fresh.
CacheStatus_NeverFresh(e, t) ==
  IF e = NoEntry THEN "missing" ELSE "stale"

CacheStatus(e, t) ==
  IF e = NoEntry THEN "missing"
  ELSE IF t - e.at < TTL THEN "fresh"
  ELSE "stale"

\* A cache manager without the in-flight handle.
MayStartRefresh_Always(k) == TRUE

\* Single-flight: a refresh of k may start only when none is registered.
MayStartRefresh(k) == ~handle[k]

\* The refresh executions of key k in progress: the synchronous ones and
\* the ones handed to waitUntil.
InFlight(k) ==
  Cardinality({r \in RIDs : req[r].pc = "refreshing" /\ KeyOf(req[r]) = k}) + Len(bg[k])

\* ------------------------------------------------------- converter client
Lit(text, n) == [t |-> [lit |-> text], n |-> n]
SchemeLen(scheme) == IF scheme = "https" THEN 5 ELSE 4
HostLen(host) == IF host = ShortHost THEN 9 ELSE 120
Endpoint(scheme, host) == [scheme |-> scheme, host |-> host]
Named(ep) == [t |-> ep, n |-> SchemeLen(ep.scheme) + 3 + HostLen(ep.host)]

\* The ranked endpoint variants of the configured converter host.
getSubconverterCandidates(host) == <<Endpoint("https", host), Endpoint("http", host)>>

RECURSIVE JoinNamed(_)
JoinNamed(eps) ==
  IF eps = <<>> THEN <<>>
  ELSE IF Len(eps) = 1 THEN <<Named(eps[1])>>
  ELSE <<Named(eps[1]), Lit(", ", 2)>> \o JoinNamed(Tail(eps))

\* The message of the aggregate error fetchFromSubconverter raises when
\* every candidate failed: it names every endpoint attempted.
AggregateErrorMessage(attempted) ==
  <<Lit("All subconverter endpoints failed: ", 35)>> \o JoinNamed(attempted)

\* A slice that keeps the whole message.
Slice_Whole(msg, limit) == msg

\* String.prototype.slice(0, limit) on a message kept as its segments.
RECURSIVE Slice(_, _)
Slice(msg, limit) ==
  IF msg = <<>> \/ limit <= 0 THEN <<>>
  ELSE IF Head(msg).n <= limit
       THEN <<Head(msg)>> \o Slice(Tail(msg), limit - Head(msg).n)
       ELSE <<Lit("cut", limit)>>

\* Whether a message names the endpoint.
Names(msg, ep) == \E i \in 1..Len(msg) : msg[i].t = ep

ErrorHeaderLimit == 200

\* The handler's triedEndpoints: declared empty and never appended to.
triedEndpoints == <<>>

\* errorMessage of the handler for the error the converter client raised.
ErrorMessage(lastErrorMessage) ==
  lastErrorMessage \o <<Lit(". Tried: ", 9)>> \o JoinNamed(triedEndpoints)

\* ------------------------------------------------------- responses
HasRealityNode(nodes) == \E i \in 1..Len(nodes) : nodes[i].body = "vless-security=reality"

CacheHeader(q) == IF q.cacheHdr = "" THEN {} ELSE {"X-Cache: " \o q.cacheHdr}

\* NekoBox client, a REALITY node in the list, target other than base64.
NekoBoxResponse(q) ==
  Resp(200, "base64", q.nodes,
       PlainHeaders \cup CacheHeader(q) \cup {"X-MiSub-Fallback", "X-MiSub-Reason"},
       <<>>, "")

\* target base64.
Base64Response(q) ==
  Resp(200, "base64", IF q.expired THEN <<DEFAULT_EXPIRED_NODE>> ELSE q.nodes,
       PlainHeaders \cup CacheHeader(q), <<>>, "")

\* getCallbackToken(env) called at time t: the first 16 hex digits of the
\* HMAC-SHA-256 of the constant 'callback-static-data' under the secret; the
\* time of the call is no input of it.
getCallbackToken(t) == "valid"

\* callback_token equal to the signed token.
CallbackResponse(q) == Resp(200, "base64", q.nodes, PlainHeaders, <<>>, "")

\* The converter's answer, returned as it is.
ConverterResponse(q, ep) ==
  Resp(200, "converted", <<>>, PlainHeaders \cup CacheHeader(q), <<>>, ep)

\* A handler without the base64 fallback.
FallbackResponse_HardError(q, errorMessage) ==
  Resp(502, "text", <<>>, {},
       <<Lit("Error connecting to subconverter: ", 34)>> \o errorMessage, "")

\* Every candidate failed: the base64 list when there is one, 502 otherwise.
FallbackResponse(q, errorMessage) ==
  IF q.nodes # <<>>
  THEN Resp(200, "base64", q.nodes,
            PlainHeaders \cup CacheHeader(q) \cup {"X-MiSub-Fallback", "X-MiSub-Error"},
            Slice(errorMessage, ErrorHeaderLimit), "")
  ELSE Resp(502, "text", <<>>, {},
            <<Lit("Error connecting to subconverter: ", 34)>> \o errorMessage, "")

\* ------------------------------------------------------------------ actions
Init ==
  /\ now = 0
  /\ settings \in {[subConverter |-> h, prependSubName |-> TRUE, enableAccessLog |-> FALSE] :
                     h \in Hosts}
  /\ downloadCount = 0
  /\ pendingPuts = {}
  /\ cache = [k \in Keys |-> NoEntry]
  /\ handle = [k \in Keys |-> FALSE]
  /\ bg = [k \in Keys |-> <<>>]
  /\ staleServed = [k \in Keys |-> FALSE]
  /\ lastRefresh = [k \in Keys |-> "none"]
  /\ req = [r \in RIDs |-> Idle]
  /\ call = NoCall

Tick ==
  /\ now < MaxTime
  /\ now' = now + 1
  /\ UNCHANGED <<settings, downloadCount, pendingPuts, cache, handle, bg, staleServed,
                 lastRefresh, req>>
  /\ UNCHANGED call

\* A handler that counts the download before it checks the identity.
ShouldCount_BeforeChecks(pid, badToken, profileOk, cb) ==
  pid # "" /\ cb = "none" /\ settings.enableAccessLog

\* The download of a profile is counted: inside the branch of a valid token
\* and an enabled profile, for a request without callback_token, with access
\* logging on.
ShouldCount(pid, badToken, profileOk, cb) ==
  /\ pid # "" /\ ~badToken /\ profileOk
  /\ cb = "none" /\ settings.enableAccessLog

\* handleMisubRequest up to the call of the cache manager: identity checks,
\* expiry, download count, converter-configured check.  Idents are the
\* <<token, profile identifier>> pairs, Targets the target formats and Cbs the
\* callback_token parameters that requests may carry.  The inputs read later
\* (refresh/nocache, the NekoBox User-Agent) are drawn where the handler first
\* reads them.
Receive(r, Idents, Targets, Cbs) ==
  /\ req[r].pc \in {"idle", "done"}
  /\ \E ident \in Idents, target \in Targets, cb \in Cbs :
       LET token == ident[1]
           pid == ident[2]
           found == FindProfile(pid)
           profileOk == found # <<>> /\ Head(found).enabled
           badToken == token = "" \/ (IF pid # "" THEN token # ProfileToken ELSE token # MyToken)
           expired == pid # "" /\ profileOk /\ IsProfileExpired(Head(found), now)
           counted == ShouldCount(pid, badToken, profileOk, cb)
           parsed == [Idle EXCEPT !.token = token, !.pid = pid, !.target = target, !.cb = cb]
           reject(status) ==
             [parsed EXCEPT !.pc = "done", !.resp = Resp(status, "text", <<>>, {}, <<>>, "")]
       IN /\ counted => downloadCount < MaxDownloads
          /\ req' = [req EXCEPT ![r] =
                 IF badToken THEN reject(403)
                 ELSE IF pid # "" /\ ~profileOk THEN reject(404)
                 ELSE IF settings.subConverter = ""
                      THEN [reject(500) EXCEPT !.expired = expired]
                 ELSE [parsed EXCEPT !.pc = "resolve", !.expired = expired]]
          /\ pendingPuts' = IF counted THEN pendingPuts \cup {downloadCount + 1}
                            ELSE pendingPuts
  /\ UNCHANGED <<now, settings, downloadCount, cache, handle, bg, staleServed, lastRefresh>>
  /\ UNCHANGED call

\* resolveNodeListWithCache, up to its first suspension.
Resolve(r, Forces) ==
  /\ req[r].pc = "resolve"
  /\ \E force \in Forces :
     LET q == [req[r] EXCEPT !.force = force]
         k == KeyOf(q)
         e == cache[k]
         status == CacheStatus(e, now)
     IN IF q.force \/ status = "missing" THEN
          \* await the refresh: the one in flight, or a new one
          /\ req' = [req EXCEPT ![r] = [q EXCEPT !.pc =
                       IF MayStartRefresh(k) THEN "refreshing" ELSE "attached"]]
          /\ handle' = [handle EXCEPT ![k] = TRUE]
          /\ lastRefresh' = IF MayStartRefresh(k) THEN [lastRefresh EXCEPT ![k] = "none"]
                            ELSE lastRefresh
          /\ UNCHANGED <<bg, staleServed>>
        ELSE IF status = "fresh" THEN
          /\ req' = [req EXCEPT ![r] = [q EXCEPT !.pc = "respond", !.nodes = e.nodes,
                                                 !.cacheHdr = "HIT"]]
          /\ UNCHANGED <<handle, bg, staleServed, lastRefresh>>
        ELSE
          \* stale: serve it, and refresh after the response unless one is in flight
          /\ req' = [req EXCEPT ![r] = [q EXCEPT !.pc = "respond", !.nodes = e.nodes,
                                                 !.cacheHdr = "STALE"]]
          /\ bg' = IF MayStartRefresh(k)
                   THEN [bg EXCEPT ![k] = Append(@, [pid |-> q.pid, expired |-> q.expired])]
                   ELSE bg
          /\ handle' = [handle EXCEPT ![k] = TRUE]
          /\ lastRefresh' = IF MayStartRefresh(k) THEN [lastRefresh EXCEPT ![k] = "none"]
                            ELSE lastRefresh
          /\ staleServed' = [staleServed EXCEPT ![k] = TRUE]
  /\ UNCHANGED <<now, settings, downloadCount, pendingPuts, cache>>
  /\ UNCHANGED call

\* The end of a refresh of key k that aggregated nodes: with the entry
\* written, the requests awaiting it receive the nodes; with the write
\* failed (storage put throws), they fail.
CompleteRefresh(k, awaiting, pid, expired, fetched, putOk) ==
  LET freshNodes == refreshNodes(pid, expired, fetched)
      names == SourceNames(TargetMisubs(pid, expired))
      put == setCache(cache, k, freshNodes, names, now, putOk)
  IN /\ cache' = put.store
     /\ lastRefresh' = [lastRefresh EXCEPT ![k] = IF put.threw THEN "failed" ELSE "ok"]
     /\ req' = [r \in RIDs |->
                 IF r \in awaiting
                 THEN IF ~put.threw
                      THEN [req[r] EXCEPT !.pc = "respond", !.nodes = freshNodes,
                                          !.cacheHdr = "MISS"]
                      ELSE [req[r] EXCEPT !.pc = "done",
                                          !.resp = Resp(500, "text", <<>>, {}, <<>>, "")]
                 ELSE req[r]]
     /\ handle' = [handle EXCEPT ![k] = FALSE]
     /\ staleServed' = [staleServed EXCEPT ![k] = FALSE]

Attached(k) == {r \in RIDs : req[r].pc = "attached" /\ KeyOf(req[r]) = k}

\* refreshNodes(false) awaited by request r.
RefreshDone(r) ==
  /\ req[r].pc = "refreshing"
  /\ LET q == req[r]
         k == KeyOf(q)
     IN \E fetched \in FetchResults(TargetMisubs(q.pid, q.expired)), putOk \in BOOLEAN :
          CompleteRefresh(k, {r} \cup Attached(k), q.pid, q.expired, fetched, putOk)
  /\ UNCHANGED <<now, settings, downloadCount, pendingPuts, bg>>
  /\ UNCHANGED call

\* refreshNodes(true) run by waitUntil after the response.
BgRefreshDone(k) ==
  /\ bg[k] # <<>>
  /\ LET c == Head(bg[k])
     IN \E fetched \in FetchResults(TargetMisubs(c.pid, c.expired)), putOk \in BOOLEAN :
          CompleteRefresh(k, Attached(k), c.pid, c.expired, fetched, putOk)
  /\ bg' = [bg EXCEPT ![k] = Tail(@)]
  /\ UNCHANGED <<now, settings, downloadCount, pendingPuts>>
  /\ UNCHANGED call

\* The write of the profile list with the raised download count, handed to
\* waitUntil: it stores the list, or fails and is logged.
DownloadCountPut ==
  /\ \E count \in pendingPuts, ok \in BOOLEAN :
       /\ downloadCount' = IF ok THEN count ELSE downloadCount
       /\ pendingPuts' = pendingPuts \ {count}
  /\ UNCHANGED <<now, settings, cache, handle, bg, staleServed, lastRefresh, req>>
  /\ UNCHANGED call

\* The handler after the cache manager returned: the NekoBox fallback, the
\* base64 answer, the converter callback, or the call of the converter client.
Respond(r, Nekos) ==
  /\ req[r].pc = "respond"
  /\ \E neko \in Nekos :
     LET q == [req[r] EXCEPT !.neko = neko]
     IN req' = [req EXCEPT ![r] =
          IF q.neko /\ HasRealityNode(q.nodes) /\ q.target # "base64"
          THEN [q EXCEPT !.pc = "done", !.resp = NekoBoxResponse(q)]
          ELSE IF q.target = "base64"
          THEN [q EXCEPT !.pc = "done", !.resp = Base64Response(q)]
          ELSE IF q.cb = getCallbackToken(now)
          THEN [q EXCEPT !.pc = "done", !.resp = CallbackResponse(q)]
          ELSE [q EXCEPT !.pc = "convert"]]
  /\ UNCHANGED <<now, settings, downloadCount, pendingPuts, cache, handle, bg, staleServed,
                 lastRefresh>>
  /\ UNCHANGED call

\* A client that walks the candidates from the last one.
NextCandidate_FromLast(candidates, tried) == candidates[Len(candidates) - Len(tried)]

\* The candidate fetchFromSubconverter contacts after those already tried.
NextCandidate(candidates, tried) == candidates[Len(tried) + 1]

\* One attempt of fetchFromSubconverter, and with the last one the handler's
\* answer: the converter's response, or the fallback.
ConvAttempt(r) ==
  /\ req[r].pc = "convert"
  /\ LET q == req[r]
         candidates == getSubconverterCandidates(settings.subConverter)
         ep == NextCandidate(candidates, q.tried)
         attempted == Append(q.tried, ep)
         errorMessage == ErrorMessage(AggregateErrorMessage(attempted))
     IN \E outcome \in {"ok", "error", "timeout"} :
          req' = [req EXCEPT ![r] =
            IF outcome = "ok"
            THEN [q EXCEPT !.pc = "done", !.tried = attempted,
                           !.resp = ConverterResponse(q, ep)]
            ELSE IF Len(attempted) < Len(candidates)
            THEN [q EXCEPT !.tried = attempted]
            ELSE [q EXCEPT !.pc = "done", !.tried = attempted, !.log = errorMessage,
                           !.resp = FallbackResponse(q, errorMessage)]]
  /\ UNCHANGED <<now, settings, downloadCount, pendingPuts, cache, handle, bg, staleServed,
                 lastRefresh>>
  /\ UNCHANGED call

\* ------------------------------------------- fetchSubscriptionWithFallback
\* A text is kept as the sequence of its parts: white space, a node line, or
\* one of the strings the function searches for.
ChallengeSignatures ==
  {"Just a moment...", "cf-browser-verification", "Access denied", "Error 403"}

\* String.prototype.includes
includes(text, part) == \E i \in 1..Len(text) : text[i] = part

\* String.prototype.trim: white space removed at both ends.
RECURSIVE trimStart(_)
trimStart(text) ==
  IF text # <<>> /\ Head(text) = "ws" THEN trimStart(Tail(text)) ELSE text

RECURSIVE trimEnd(_)
trimEnd(text) ==
  IF text # <<>> /\ text[Len(text)] = "ws" THEN trimEnd(SubSeq(text, 1, Len(text) - 1))
  ELSE text

trim(text) == trimEnd(trimStart(text))

\* The bodies tier 1 may receive.
Tier1Bodies ==
  { <<>>, <<"ws">>, <<"line">>, <<"ws", "line", "ws">>, <<"Just a moment...">>,
    <<"line", "Error 403", "line">> }

\* What a fetch may end with: a response, the timeout winning the race, or
\* the fetch rejecting.
Outcomes(bodies) ==
  {[kind |-> "response", ok |-> o, body |-> b] : o \in BOOLEAN, b \in bodies}
    \cup {[kind |-> k, ok |-> FALSE, body |-> <<>>] : k \in {"timeout", "error"}}

\* A base64 body is kept as its parts: a group of characters that encodes
\* some bytes, white space, or a character outside the alphabet.
B64Group(bytes) == [k |-> "group", b |-> bytes]
B64Ws == [k |-> "ws", b |-> <<>>]
B64Bad == [k |-> "bad", b |-> <<>>]

\* base64Content.replace(/\s/g, '')
StripWs(body) == SelectSeq(body, LAMBDA c : c.k # "ws")

\* atob: the bytes the groups encode; it throws on a character outside the
\* alphabet.
atob(body) ==
  [threw |-> \E i \in 1..Len(body) : body[i].k # "group",
   value |-> Flatten([i \in 1..Len(body) |-> body[i].b])]

\* The bodies the conversion service may answer.
Tier2Bodies ==
  { <<>>, <<B64Group(<<115, 115>>)>>,
    <<B64Group(<<115, 115>>), B64Ws, B64Group(<<10>>), B64Ws>>,
    <<B64Group(<<115>>), B64Bad>> }

\* subConverter of defaultSettings, which the stored settings override.
DefaultSubConverter == ShortHost

NoResult == [success |-> FALSE, content |-> <<>>, userAgent |-> "", method |-> "none",
             error |-> ""]

\* A tier 1 that reads the status the wrong way round.
Tier1Succeeds_StatusInverted(t1) ==
  /\ t1.kind = "response"
  /\ ~t1.ok
  /\ ~\E sig \in ChallengeSignatures : includes(t1.body, sig)
  /\ Len(trim(t1.body)) > 0

\* Tier 1 succeeded: a 2xx response whose text has none of the challenge
\* strings and is not blank.
Tier1Succeeds(t1) ==
  /\ t1.kind = "response"
  /\ t1.ok
  /\ ~\E sig \in ChallengeSignatures : includes(t1.body, sig)
  /\ Len(trim(t1.body)) > 0

\* content of the result of tier 2 for a 2xx response.
Tier2Content(body) ==
  LET decoded == atob(StripWs(body))
  IN IF decoded.threw THEN body ELSE decoded.value

FailedResult ==
  [success |-> FALSE, content |-> <<>>, userAgent |-> "none", method |-> "failed",
   error |-> "direct and subconverter both failed"]

\* catch (error) of tier 1: a warning, and on to tier 2.
AfterTier1Exception(c) == [c EXCEPT !.pc = "tier2"]

\* A tier 2 whose exception leaves the function.
AfterTier2Exception_Rethrows(c) == [c EXCEPT !.pc = "threw"]

\* catch (subconverterError) of tier 2: a warning, and on to the failure result.
AfterTier2Exception(c) == [c EXCEPT !.pc = "returned", !.result = FailedResult]

\* A call of fetchSubscriptionWithFallback(url, preferredUserAgent, env):
\* whether env binds MISUB_KV, whether it binds MISUB_DB, and whether the
\* settings can be read.
FetchCall ==
  /\ call.fn = "none" \/ (call.fn = "fetch" /\ call.pc = "returned")
  /\ \E hasKV \in BOOLEAN, hasDB \in BOOLEAN, read \in {"stored", "error"} :
       call' = [fn |-> "fetch", pc |-> "tier1", hasKV |-> hasKV, hasDB |-> hasDB,
                read |-> read,
                t1 |-> [kind |-> "none", ok |-> FALSE, body |-> <<>>],
                t2 |-> [kind |-> "none", ok |-> FALSE, body |-> <<>>],
                contacted |-> <<>>, result |-> NoResult]
  /\ UNCHANGED handlerVars

\* Tier 1: the direct fetch with the preferred User-Agent.
FetchTier1 ==
  /\ call.fn = "fetch" /\ call.pc = "tier1"
  /\ \E t1 \in Outcomes(Tier1Bodies) :
       LET c == [call EXCEPT !.t1 = t1, !.contacted = Append(@, "direct")]
       IN call' =
            IF Tier1Succeeds(t1)
            THEN [c EXCEPT !.pc = "returned",
                           !.result = [success |-> TRUE, content |-> t1.body,
                                       userAgent |-> "v2rayN/7.23", method |-> "direct",
                                       error |-> ""]]
            ELSE IF t1.kind \in {"timeout", "error"} THEN AfterTier1Exception(c)
            ELSE [c EXCEPT !.pc = "tier2"]
  /\ UNCHANGED handlerVars

\* Tier 2: the fetch through the conversion service, and the failure result.
FetchTier2 ==
  /\ call.fn = "fetch" /\ call.pc = "tier2"
  /\ LET settingsData == IF call.read = "stored" THEN settings.subConverter
                         ELSE DefaultSubConverter
         available == call.hasKV /\ settingsData # ""
     IN IF ~available
        THEN call' = [call EXCEPT !.pc = "returned", !.result = FailedResult]
        ELSE \E t2 \in Outcomes(Tier2Bodies) :
               LET c == [call EXCEPT !.t2 = t2, !.contacted = Append(@, "subconverter")]
               IN call' =
                    IF t2.kind = "response" /\ t2.ok
                    THEN [c EXCEPT !.pc = "returned",
                                   !.result = [success |-> TRUE,
                                               content |-> Tier2Content(t2.body),
                                               userAgent |-> "subconverter",
                                               method |-> "subconverter", error |-> ""]]
                    ELSE IF t2.kind \in {"timeout", "error"} THEN AfterTier2Exception(c)
                    ELSE [c EXCEPT !.pc = "returned", !.result = FailedResult]
  /\ UNCHANGED handlerVars

\* ------------------------------------------ generateCombinedNodeList: a run

\* Lines a feed or a manual entry can hold: a trojan link, the same link under
\* another name, with white space around it, a blank line, a line that is no
\* link, a link whose name holds a url, and one vmess node written three
\* ways (compact, with white space, with its members in another order).
LineT == Node(<<"foo">>, "trojan-x")
LineT2 == Node(<<"bar">>, "trojan-x")
LineTPad == [LineT EXCEPT !.pad = TRUE]
LineBlank == Node(<<>>, "")
LineText == Node(<<>>, "text")
LineUrlName == Node(<<"https://x">>, "trojan-y")
VmessFields == << <<"add", <<"h">>>>, <<"ps", <<"node1">>>> >>
VmessFieldsReordered == << <<"ps", <<"node1">>>>, <<"add", <<"h">>>> >>
LineV == Vmess(Json(VmessFields, FALSE))
LineVWs == Vmess(Json(VmessFields, TRUE))
LineVOrder == Vmess(Json(VmessFieldsReordered, FALSE))
LineBadName == Node(<<"%bad">>, "trojan-z")
LineVBad == Vmess(NoJson)
LineVUrlPs == Vmess(Json(<< <<"add", <<"h">>>>, <<"ps", <<"https://x">>>> >>, FALSE))

\* The texts a feed can answer.
AggTexts ==
  { <<>>, <<LineT>>, <<LineTPad, LineBlank, LineT>>, <<LineT2, LineText>>,
    <<LineUrlName, LineT>>, <<LineV>>, <<LineVWs>>, <<LineVOrder, LineT>>,
    <<LineVUrlPs>>, <<LineBadName, LineT>>, <<LineVBad, LineT2>> }

\* What the fetch of one feed can come to: a response (2xx or not) with a
\* text, the 10 s timer, or a rejected fetch.
AggOutcomes ==
  {[kind |-> "response", ok |-> TRUE, text |-> t] : t \in AggTexts}
    \cup {[kind |-> "response", ok |-> FALSE, text |-> <<LineT>>],
          [kind |-> "timeout", ok |-> FALSE, text |-> <<>>],
          [kind |-> "error", ok |-> FALSE, text |-> <<>>]}

\* The subscription lists the aggregation is run on: feeds with a name, without
\* one, with the same name, with a name that holds a url, and manual entries.
ManualT == [id |-> "m2", scheme |-> "trojan", name |-> "M2", enabled |-> TRUE, link |-> LineTPad]
ManualV == [id |-> "m3", scheme |-> "vmess", name |-> "M3", enabled |-> TRUE, link |-> LineVWs]
ManualBadName ==
  [id |-> "m5", scheme |-> "trojan", name |-> "M5", enabled |-> TRUE, link |-> LineBadName]
ManualVBad == [id |-> "m6", scheme |-> "vmess", name |-> "M6", enabled |-> TRUE, link |-> LineVBad]
ManualUrlName ==
  [id |-> "m4", scheme |-> "trojan", name |-> "M4", enabled |-> TRUE, link |-> LineUrlName]
AggConfigs ==
  { allMisubs,
    <<ManualV, allMisubs[1], ManualT, allMisubs[2]>>,
    <<allMisubs[2], allMisubs[1], ManualUrlName>>,
    <<[allMisubs[1] EXCEPT !.name = ""], ManualT, [allMisubs[2] EXCEPT !.name = "A"]>>,
    <<[allMisubs[1] EXCEPT !.name = "https://x"], ManualV>>,
    <<ManualT, ManualBadName, allMisubs[1]>>,
    <<ManualVBad, allMisubs[1], ManualT>> }

\* A promise that resolves to the body of any response.
SubContent_KeepsErrorBody(prependSubName, sub, outcome) ==
  IF outcome.kind = "response"
  THEN ProcessSub(prependSubName, sub, outcome.text)
  ELSE <<>>

\* What the promise of one feed resolves to: '' unless the response is 2xx.
SubContent(prependSubName, sub, outcome) ==
  IF outcome.kind = "response" /\ outcome.ok
  THEN ProcessSub(prependSubName, sub, outcome.text)
  ELSE <<>>

\* The contents of an arrived feed.
ArrivedContent(arrived, id) ==
  arrived[CHOOSE i \in 1..Len(arrived) : arrived[i].id = id].content

\* A join that takes the promises in the order they settled.
PromiseAll_ArrivalOrder(httpSubs, arrived) ==
  [i \in 1..Len(httpSubs) |-> arrived[i].content]

\* Promise.all(subPromises): the values in the order of the promises.
PromiseAll(httpSubs, arrived) ==
  [i \in 1..Len(httpSubs) |-> ArrivedContent(arrived, httpSubs[i].id)]

\* generateCombinedNodeList is called: the manual nodes are processed and
\* one fetch per feed is started, unless processing the manual nodes threw.
AggCall ==
  /\ call.fn = "none"
  /\ \E prependSubName \in BOOLEAN, misubs \in AggConfigs :
       call' = [fn |-> "generateCombinedNodeList", prependSubName |-> prependSubName,
                misubs |-> misubs,
                threw |-> ManualNodesThrow(prependSubName, misubs),
                pending |-> IF ManualNodesThrow(prependSubName, misubs) THEN {}
                            ELSE FeedIds(misubs),
                hung |-> {}, arrived |-> <<>>, joined |-> FALSE, result |-> <<>>]
  /\ UNCHANGED handlerVars

\* The promise of one feed settles, in any order among the feeds: the fetch
\* answered and the body was read, or the fetch was rejected, or the 10 s
\* timer of the race won.
AggFetchDone ==
  /\ call.fn = "generateCombinedNodeList"
  /\ \E id \in call.pending \ call.hung, outcome \in AggOutcomes :
       LET sub == call.misubs[CHOOSE i \in 1..Len(call.misubs) : call.misubs[i].id = id]
       IN call' = [call EXCEPT
                     !.pending = @ \ {id},
                     !.arrived = Append(@, [id |-> id, outcome |-> outcome,
                                            content |-> SubContent(call.prependSubName, sub, outcome)])]
  /\ UNCHANGED handlerVars

\* The fetch of one feed answered with 2xx headers, so the race with the 10 s
\* timer is over, and the body never ends: response.text() is awaited with no
\* timer and the promise of the feed never settles.
AggBodyHangs ==
  /\ call.fn = "generateCombinedNodeList"
  /\ \E id \in call.pending \ call.hung :
       call' = [call EXCEPT !.hung = @ \cup {id}]
  /\ UNCHANGED handlerVars

\* All promises have settled: the contents are joined and combined.
AggJoin ==
  /\ call.fn = "generateCombinedNodeList"
  /\ call.pending = {} /\ ~call.joined /\ ~call.threw
  /\ call' = [call EXCEPT
                !.joined = TRUE,
                !.result = Combine(ManualNodes(call.prependSubName, call.misubs),
                                   PromiseAll(SelectSeq(call.misubs, LowerStartsWithHttp),
                                              call.arrived))]
  /\ UNCHANGED handlerVars

\* ------------------------------------------- download count: concurrent writers

\* Countable profile requests followed in one run.
MaxCounted == 3

\* The stored profile list, as far as the writers change it: the profile's
\* downloadCount and its name.
CountStart ==
  /\ call.fn = "none"
  /\ call' = [fn |-> "downloadCount",
              stored |-> [downloadCount |-> 0, name |-> "P"],
              puts |-> [r \in RIDs |-> <<>>],
              counted |-> 0, saved |-> "P"]
  /\ UNCHANGED handlerVars

\* A countable request of the profile: the handler reads the profile list,
\* raises downloadCount in the list it read and hands the put of that list to
\* waitUntil.
CountRequest(r) ==
  /\ call.fn = "downloadCount"
  /\ call.puts[r] = <<>> /\ call.counted < MaxCounted
  /\ LET allProfiles_read == call.stored
         updatedProfiles ==
           [allProfiles_read EXCEPT !.downloadCount = allProfiles_read.downloadCount + 1]
     IN call' = [call EXCEPT !.puts[r] = <<updatedProfiles>>, !.counted = @ + 1]
  /\ UNCHANGED handlerVars

\* The deferred put of a request stores the list the request built.
CountPut(r) ==
  /\ call.fn = "downloadCount"
  /\ call.puts[r] # <<>>
  /\ call' = [call EXCEPT !.stored = Head(call.puts[r]), !.puts[r] = <<>>]
  /\ UNCHANGED handlerVars

\* An admin save of the profile list (/api/misubs): the list of the request
\* body is stored; here the list as it is stored now, under a new name.
AdminSave ==
  /\ call.fn = "downloadCount"
  /\ \E name \in {"P", "Q"} :
       /\ name # call.stored.name
       /\ call' = [call EXCEPT !.stored.name = name, !.saved = name]
  /\ UNCHANGED handlerVars

\* ------------------------------------------------------------ /api/migrate

\* get of a key that is not stored
KvNull == "null"

\* A migration that deletes the legacy record first.
MigrateWrites_DeleteFirst == <<"delete", "put-subs", "put-profiles", "put-backup">>

\* The storage writes of /migrate, in the order the handler awaits them.
MigrateWrites == <<"put-subs", "put-profiles", "put-backup", "delete">>

\* The store after one write of a call that read oldData.
MigrateWrite(kv, step, oldData) ==
  IF step = "put-subs" THEN [kv EXCEPT !.subs = oldData]
  ELSE IF step = "put-profiles" THEN [kv EXCEPT !.profiles = "[]"]
  ELSE IF step = "put-backup" THEN [kv EXCEPT !.backup = oldData]
  ELSE [kv EXCEPT !.old = KvNull]

\* The stores /migrate is called on: with and without the legacy record, with
\* and without the new subscription record and the profile record.
MigrateStart ==
  /\ call.fn = "none"
  /\ \E old \in {KvNull, "legacy"}, subs \in {KvNull, "subs"},
        profiles \in {KvNull, "profiles"} :
       call' = [fn |-> "migrate",
                kv |-> [old |-> old, subs |-> subs, profiles |-> profiles, backup |-> KvNull],
                calls |-> [r \in RIDs |->
                            [pc |-> "idle", oldData |-> KvNull, madeWithSubs |-> FALSE,
                             status |-> 0, success |-> FALSE]]]
  /\ UNCHANGED handlerVars

\* An authenticated call of /api/migrate is made.
MigrateCall(r) ==
  /\ call.fn = "migrate"
  /\ call.calls[r].pc \in {"idle", "done"}
  /\ call' = [call EXCEPT !.calls[r] =
                [pc |-> "get-old", oldData |-> KvNull,
                 madeWithSubs |-> call.kv.subs # KvNull, status |-> 0, success |-> FALSE]]
  /\ UNCHANGED handlerVars

\* The call reads the legacy record, then the new one, and answers or goes on
\* to its writes.
MigrateRead(r) ==
  /\ call.fn = "migrate"
  /\ LET c == call.calls[r]
     IN \/ /\ c.pc = "get-old"
           /\ call' = [call EXCEPT !.calls[r] =
                         [c EXCEPT !.pc = "get-new", !.oldData = call.kv.old]]
        \/ /\ c.pc = "get-new"
           /\ call' = [call EXCEPT !.calls[r] =
                IF call.kv.subs # KvNull
                THEN [c EXCEPT !.pc = "done", !.status = 200, !.success = TRUE]
                ELSE IF c.oldData = KvNull
                THEN [c EXCEPT !.pc = "done", !.status = 404]
                ELSE [c EXCEPT !.pc = MigrateWrites[1]]]
  /\ UNCHANGED handlerVars

\* One awaited write of the call: it is done and the call goes on to the
\* next, or it throws and the call answers 500.
MigrateStep(r) ==
  /\ call.fn = "migrate"
  /\ LET c == call.calls[r]
         at == {i \in 1..Len(MigrateWrites) : MigrateWrites[i] = c.pc}
     IN /\ at # {}
        /\ \E ok \in BOOLEAN :
             LET i == CHOOSE j \in at : TRUE
             IN call' =
                  IF ~ok
                  THEN [call EXCEPT !.calls[r] = [c EXCEPT !.pc = "done", !.status = 500]]
                  ELSE [call EXCEPT
                          !.kv = MigrateWrite(call.kv, c.pc, c.oldData),
                          !.calls[r] =
                            IF i < Len(MigrateWrites) THEN [c EXCEPT !.pc = MigrateWrites[i + 1]]
                            ELSE [c EXCEPT !.pc = "done", !.status = 200, !.success = TRUE]]
  /\ UNCHANGED handlerVars

\* ----------------------------------------------- DataMigrator.migrateKVToD1

\* The records migrateKVToD1 copies, in the order it copies them.  (The cached
\* node lists, copied last, are left out.)
MigratedKeys == <<"subscriptions", "profiles", "settings">>

\* migrateKVToD1(env) is called on a KV store that holds some of the records
\* and a D1 database that holds none.
MigrateKVToD1Call ==
  /\ call.fn = "none"
  /\ \E stored \in SUBSET Range(MigratedKeys) :
       LET kv == [k \in Range(MigratedKeys) |->
                    IF k \in stored THEN [data |-> k, storageType |-> "kv"]
                    ELSE [data |-> KvNull, storageType |-> ""]]
       IN call' = [fn |-> "migrateKVToD1", kv |-> kv, kvBefore |-> kv,
                   d1 |-> [k \in Range(MigratedKeys) |-> [data |-> KvNull, storageType |-> ""]],
                   done |-> 0, errors |-> 0]
  /\ UNCHANGED handlerVars

\* One block of migrateKVToD1: the record is read from KV (null when it is not
\* stored or the read fails) and, when there is one, put into D1, the
\* settings with storageType 'd1'; a put that throws is added to the errors
\* and the migration goes on.
MigrateKVToD1Step ==
  /\ call.fn = "migrateKVToD1"
  /\ call.done < Len(MigratedKeys)
  /\ \E read \in BOOLEAN, put \in BOOLEAN :
       LET key == MigratedKeys[call.done + 1]
           value == IF read THEN call.kv[key] ELSE [data |-> KvNull, storageType |-> ""]
           copied == IF key = "settings" THEN [value EXCEPT !.storageType = "d1"] ELSE value
       IN call' =
            IF value.data = KvNull THEN [call EXCEPT !.done = @ + 1]
            ELSE IF put THEN [call EXCEPT !.done = @ + 1, !.d1[key] = copied]
            ELSE [call EXCEPT !.done = @ + 1, !.errors = @ + 1]
  /\ UNCHANGED handlerVars

\* ------------------------------------------------------- conditionalKVPut

\* A stored value: null, or an array of objects, each object the sequence of
\* its members <<key, value>> in the order written.
NullData == [isNull |-> TRUE, items |-> <<>>]
ArrayData(items) == [isNull |-> FALSE, items |-> items]

\* Object.keys(data).sort() of an array: its indices '0', '1', ...
ObjectKeys(data) == {<<"0", "1", "2">>[i] : i \in 1..Len(data.items)}

\* JSON.stringify(data, allowList): an array replacer names the members that
\* are written, for every object at every depth; the elements of an array
\* are all written.
stringifyWithReplacer(data, allowList) ==
  [i \in 1..Len(data.items) |->
     SelectSeq(data.items[i], LAMBDA member : member[1] \in allowList)]

\* calculateDataHash(data): the 32-bit hash of the text, taken here to be
\* different for different texts.
calculateDataHash(data) == stringifyWithReplacer(data, ObjectKeys(data))

\* hasDataChanged(oldData, newData)
hasDataChanged(oldData, newData) ==
  IF oldData.isNull /\ newData.isNull THEN FALSE
  ELSE IF oldData.isNull \/ newData.isNull THEN TRUE
  ELSE calculateDataHash(oldData) # calculateDataHash(newData)

\* The values stored and written: null, the empty array, and arrays of
\* objects that differ in the value of a member, in their members, in the
\* number of elements, and objects with a member named like an index.
SampleData ==
  { NullData, ArrayData(<<>>),
    ArrayData(<< << <<"id", "a">> >> >>),
    ArrayData(<< << <<"id", "b">> >> >>),
    ArrayData(<< << <<"id", "a">>, <<"name", "n">> >> >>),
    ArrayData(<< << <<"id", "a">> >>, << <<"id", "b">> >> >>),
    ArrayData(<< << <<"0", "x">> >> >>),
    ArrayData(<< << <<"0", "y">> >> >>) }

\* conditionalKVPut(env, key, newData) without oldData: the stored value is
\* read (a failed read is followed by the put), and newData is put when
\* hasDataChanged says so.
ConditionalKVPutCall ==
  /\ call.fn = "none"
  /\ \E stored \in SampleData, newData \in SampleData \ {NullData}, read \in BOOLEAN :
       LET written == ~read \/ hasDataChanged(stored, newData)
       IN call' = [fn |-> "conditionalKVPut", before |-> stored, newData |-> newData,
                   read |-> read, returned |-> written,
                   stored |-> IF written THEN newData ELSE stored]
  /\ UNCHANGED handlerVars

\* ------------------------------------------------------ /api: the session

\* SESSION_DURATION (8 hours), in ticks of the clock of the API run.
SessionDuration == 2
\* Last tick of that clock.
MaxApiTime == 3

\* No session cookie in the request.
NoToken == [data |-> 0, key |-> "", parts |-> 0]

\* createSignedToken(key, data): `${data}.${HMAC-SHA-256 of data under key}`;
\* the signature is kept as the key and the data it was made of.
createSignedToken(key, data) == [data |-> data, key |-> key, parts |-> 2]

\* verifySignedToken(key, token): the data when the token has two parts and
\* is the token signed under key for its data; null otherwise.
verifySignedToken(key, token) ==
  IF key = "" \/ token = NoToken \/ token.parts # 2
  THEN [isNull |-> TRUE, data |-> 0]
  ELSE IF token = createSignedToken(key, token.data)
       THEN [isNull |-> FALSE, data |-> token.data]
       ELSE [isNull |-> TRUE, data |-> 0]

\* A check that takes any verified token, whatever its age.
authMiddleware_NoExpiry(env, cookie, t) ==
  /\ env.COOKIE_SECRET # ""
  /\ cookie # NoToken
  /\ ~verifySignedToken(env.COOKIE_SECRET, cookie).isNull

\* authMiddleware(request, env) at time t
authMiddleware(env, cookie, t) ==
  /\ env.COOKIE_SECRET # ""
  /\ cookie # NoToken
  /\ LET verifiedData == verifySignedToken(env.COOKIE_SECRET, cookie)
     IN ~verifiedData.isNull /\ t - verifiedData.data < SessionDuration

\* The routes of /api that write or delete stored records.
WritingRoutes == {"/migrate", "/misubs", "/settings"}

\* handleApiRequest(request, env) at time t: the status answered, whether a
\* stored record was written or deleted, and the session issued.  A password
\* or an environment variable that is missing is ''.
handleApiRequest(env, request, t) ==
  LET answer(status, wrote, token) ==
        [path |-> request.path, password |-> request.password, cookie |-> request.cookie,
         at |-> t, status |-> status, wrote |-> wrote, issued |-> token]
      authenticated == authMiddleware(env, request.cookie, t)
  IN IF request.path # "/login" /\ ~authenticated THEN answer(401, FALSE, NoToken)
     ELSE IF request.path = "/login"
     THEN IF request.password # env.ADMIN_PASSWORD THEN answer(401, FALSE, NoToken)
          ELSE IF env.COOKIE_SECRET = "" THEN answer(500, FALSE, NoToken)
          ELSE answer(200, FALSE, createSignedToken(env.COOKIE_SECRET, t))
     ELSE IF request.path \in WritingRoutes THEN answer(200, TRUE, NoToken)
     ELSE IF request.path \in {"/logout", "/data", "/node_count"}
     THEN answer(200, FALSE, NoToken)
     ELSE answer(404, FALSE, NoToken)

\* The deployment: the secrets of the environment, set or not.
ApiStart ==
  /\ call.fn = "none"
  /\ \E secret \in {"", "secret"}, password \in {"", "pw"} :
       call' = [fn |-> "api", env |-> [COOKIE_SECRET |-> secret, ADMIN_PASSWORD |-> password],
                clock |-> 0, issued |-> {},
                last |-> [path |-> "", password |-> "", cookie |-> NoToken, at |-> 0,
                          status |-> 0, wrote |-> FALSE, issued |-> NoToken]]
  /\ UNCHANGED handlerVars

\* Date.now() advances.
ApiTick ==
  /\ call.fn = "api"
  /\ call.clock < MaxApiTime
  /\ call' = [call EXCEPT !.clock = @ + 1]
  /\ UNCHANGED handlerVars

\* The requests to /api at time t: a login with no password, the right one
\* or a wrong one; and a request to another route with no cookie, with a
\* session issued before, with a token signed under another key, or with a
\* token of three parts.
ApiRequests(env, issued, t) ==
  {[path |-> "/login", password |-> pw, cookie |-> NoToken] : pw \in {"", "pw", "bad"}}
    \cup {[path |-> path, password |-> "", cookie |-> cookie] :
            path \in WritingRoutes \cup {"/data", "/other"},
            cookie \in {NoToken} \cup issued
                        \cup {[data |-> t, key |-> "guess", parts |-> 2],
                              [data |-> t, key |-> env.COOKIE_SECRET, parts |-> 3]}}

\* A request to /api is handled.
ApiRequest ==
  /\ call.fn = "api"
  /\ \E request \in ApiRequests(call.env, call.issued, call.clock) :
       LET last == handleApiRequest(call.env, request, call.clock)
       IN call' = [call EXCEPT !.last = last,
                               !.issued = IF last.issued = NoToken THEN @
                                          ELSE @ \cup {last.issued}]
  /\ UNCHANGED handlerVars

\* ------------------------------------------------- profile membership

\* The stored subscription list with every choice of enabled flags.
StoredMisubs ==
  { [i \in 1..Len(allMisubs) |-> [allMisubs[i] EXCEPT !.enabled = i \in on]] :
      on \in SUBSET (1..Len(allMisubs)) }

\* The filter of the handler or the one of functions/[[path]].js.
FilterImpl(impl, misubs, profile) ==
  IF impl = "handler" THEN FilterByProfile(misubs, profile)
  ELSE FilterByProfileLegacy(misubs, profile)

\* A request to an enabled, unexpired profile that lists the given ids: the
\* membership filter, the source names the refresh closure stores, and the
\* split generateCombinedNodeList makes of the sources it is given.
MembershipCall ==
  /\ call.fn = "none"
  /\ \E impl \in {"handler", "path"}, misubs \in StoredMisubs,
        subscriptions \in SUBSET {allMisubs[i].id : i \in 1..Len(allMisubs)},
        manualNodes \in SUBSET {allMisubs[i].id : i \in 1..Len(allMisubs)} :
       LET profile == [Head(allProfiles) EXCEPT !.subscriptions = subscriptions,
                                                !.manualNodes = manualNodes]
           targetMisubs == FilterImpl(impl, misubs, profile)
       IN call' = [fn |-> "membership", impl |-> impl, misubs |-> misubs,
                   profile |-> profile, targetMisubs |-> targetMisubs,
                   asSubscription |-> SelectSeq(targetMisubs, StartsWithHttp),
                   sourceNames |-> SourceNames(targetMisubs),
                   httpSubs |-> SelectSeq(targetMisubs, LowerStartsWithHttp)]
  /\ UNCHANGED handlerVars

\* ------------------------------- generateCombinedNodeList: the lines of a text

\* A text is kept as its tokens: a run of characters without white space (the
\* scheme it starts with, whether '://' follows the scheme, and whether an
\* allow-listed scheme with '://' occurs further on in the run), a blank, a
\* '\r' or a '\n'.
Run(scheme, sep, inner) == [k |-> "run", scheme |-> scheme, sep |-> sep, inner |-> inner]
Ch(k) == [k |-> k, scheme |-> "", sep |-> FALSE, inner |-> FALSE]

\* The schemes /^(ss|ssr|vmess|vless|trojan|hysteria2?|hy|hy2|tuic|anytls):\/\// accepts.
NodeSchemes ==
  {"ss", "ssr", "vmess", "vless", "trojan", "hysteria", "hysteria2", "hy", "hy2", "tuic",
   "anytls"}

\* A pattern without the '^': the scheme may occur anywhere in the line.
nodeRegexTest_Unanchored(line) ==
  \E i \in 1..Len(line) :
    line[i].k = "run" /\ ((line[i].scheme \in NodeSchemes /\ line[i].sep) \/ line[i].inner)

\* nodeRegex.test(line)
nodeRegexTest(line) ==
  line # <<>> /\ line[1].k = "run" /\ line[1].scheme \in NodeSchemes /\ line[1].sep

\* line.trim(): blanks, '\r' and '\n' removed at both ends.
RECURSIVE lineTrim(_)
lineTrim(line) ==
  IF line # <<>> /\ Head(line).k # "run" THEN lineTrim(Tail(line))
  ELSE IF line # <<>> /\ line[Len(line)].k # "run"
       THEN lineTrim(SubSeq(line, 1, Len(line) - 1))
       ELSE line

\* text.replace(/\r\n/g, '\n')
RECURSIVE replaceCrLf(_)
replaceCrLf(text) ==
  IF Len(text) < 2 THEN text
  ELSE IF text[1].k = "cr" /\ text[2].k = "lf" THEN replaceCrLf(Tail(text))
       ELSE <<Head(text)>> \o replaceCrLf(Tail(text))

\* text.split('\n')
RECURSIVE splitLf(_)
splitLf(text) ==
  IF \A i \in 1..Len(text) : text[i].k # "lf" THEN <<text>>
  ELSE LET i == CHOOSE j \in 1..Len(text) :
                  text[j].k = "lf" /\ \A h \in 1..(j - 1) : text[h].k # "lf"
       IN <<SubSeq(text, 1, i - 1)>> \o splitLf(SubSeq(text, i + 1, Len(text)))

\* lines.join(sep)
RECURSIVE joinWith(_, _)
joinWith(lines, sep) ==
  IF lines = <<>> THEN <<>>
  ELSE IF Len(lines) = 1 THEN lines[1]
       ELSE lines[1] \o sep \o joinWith(Tail(lines), sep)

\* A response body: the text, plain or wrapped in base64.  The wrapping is
\* taken off when the body without white space is longer than 20 characters,
\* is made of the base64 alphabet and atob accepts it; a wrapped body that is
\* shorter, or that atob rejects, is left as the one run of characters it is.
decodeBody(body) ==
  IF body.enc \in {"plain", "base64"} THEN body.text ELSE <<Run("", FALSE, FALSE)>>

\* validNodes of one feed: the lines of the body, trimmed, that are node links.
fetchedNodes(body) ==
  LET lines == splitLf(replaceCrLf(decodeBody(body)))
  IN SelectSeq([i \in 1..Len(lines) |-> lineTrim(lines[i])], nodeRegexTest)

\* processedManualNodes: every url followed by '\n', split, trimmed, node
\* links only.
manualLines(urls) ==
  LET manualNodesContent == Flatten([i \in 1..Len(urls) |-> urls[i] \o <<Ch("lf")>>])
      lines == splitLf(manualNodesContent)
  IN SelectSeq([i \in 1..Len(lines) |-> lineTrim(lines[i])], nodeRegexTest)

\* The last statement: the manual nodes, '\n', the feeds' contents joined by
\* '\n'; split, trimmed, without empty lines, every line once.
combinedLines(urls, bodies) ==
  LET processedManualNodes == joinWith(manualLines(urls), <<Ch("lf")>>)
      processedSubContents ==
        [i \in 1..Len(bodies) |-> joinWith(fetchedNodes(bodies[i]), <<Ch("lf")>>)]
      combinedContent ==
        processedManualNodes \o <<Ch("lf")>> \o joinWith(processedSubContents, <<Ch("lf")>>)
      lines == splitLf(combinedContent)
  IN Dedup(SelectSeq([i \in 1..Len(lines) |-> lineTrim(lines[i])], LAMBDA l : l # <<>>))

\* Lines of a text: node links (one with blanks around it, one with a blank
\* and a url inside it), a comment and an http url that both hold a node link
\* further on, HTML, a blank line, a line of blanks, a scheme in upper case,
\* and a scheme without '//'.
SampleLines ==
  { <<>>,
    << <<Run("trojan", TRUE, FALSE)>> >>,
    << <<Ch("sp"), Run("ss", TRUE, FALSE), Ch("sp")>>, <<Run("#", FALSE, TRUE)>>,
       <<Run("trojan", TRUE, FALSE)>> >>,
    << <<Run("<html>", FALSE, FALSE)>>, <<Run("https", TRUE, TRUE)>>, <<>>,
       <<Run("hysteria2", TRUE, FALSE)>> >>,
    << <<Run("SS", TRUE, FALSE)>>, <<Run("trojan", FALSE, FALSE)>>,
       <<Run("vless", TRUE, FALSE), Ch("sp"), Run("http", TRUE, FALSE)>>, <<Ch("sp")>> >>,
    << <<Run("#", FALSE, TRUE)>>, <<Run("http", TRUE, FALSE)>> >> }

LineEndings == { <<Ch("lf")>>, <<Ch("cr"), Ch("lf")>>, <<Ch("cr")>> }

\* The bodies a feed answers: the sample lines under each line ending, with
\* and without a last line ending, plain and wrapped.
SampleBodies ==
  { [enc |-> enc, text |-> joinWith(lines, eol) \o last] :
      enc \in {"plain", "base64", "base64-short", "base64-rejected"},
      lines \in SampleLines, eol \in LineEndings, last \in LineEndings \cup {<<>>} }

\* The urls of the manual entries: none, a node link with blanks around it,
\* an entry that is no node link, and an entry pasted as several lines.
SampleManualUrls ==
  { <<>>,
    << <<Ch("sp"), Run("vmess", TRUE, FALSE), Ch("sp")>> >>,
    << <<Run("socks5", TRUE, TRUE)>>, <<Run("tuic", TRUE, FALSE)>> >>,
    << <<Run("ss", TRUE, FALSE), Ch("cr"), Ch("lf"), Run("#", FALSE, TRUE), Ch("lf"),
         Run("https", TRUE, FALSE)>> >> }

\* generateCombinedNodeList on manual entries and one feed's body.
LinesCall ==
  /\ call.fn = "none"
  /\ \E urls \in SampleManualUrls, body \in SampleBodies :
       call' = [fn |-> "lines", urls |-> urls, body |-> body,
                result |-> combinedLines(urls, <<body>>)]
  /\ UNCHANGED handlerVars

\* ------------------------------------------------------- prependNodeName

\* prependNodeName of src/lib/utils.js: the prefix goes into the name after
\* the last '#', for every kind of link.
prependNodeNameLib(link, prefix) ==
  IF prefix = "" THEN link
  ELSE IF ~link.frag THEN [link EXCEPT !.frag = TRUE, !.name = <<prefix>>]
  ELSE IF DecodeThrows(link.name) THEN URIError
  ELSE IF NameStartsWith(link.name, prefix) THEN link
  ELSE [link EXCEPT !.name = <<prefix>> \o (IF link.name = <<>> THEN <<"">> ELSE link.name)]

\* The links prependNodeName is called on: with a name, without a fragment,
\* with an empty fragment, with a name that starts with a prefix, and vmess
\* links (payload with, without and with an empty ps, with a ps that starts
\* with a prefix, written with white space, followed by a fragment, and one
\* that cannot be decoded).
PrependLinks ==
  { LineT, Node(<<>>, "trojan-x"), [LineT EXCEPT !.name = <<>>],
    Node(<<"A", "foo">>, "trojan-x"), Node(<<"Ab">>, "trojan-x"),
    LineV, LineVWs, LineVOrder,
    Vmess(Json(<< <<"add", <<"h">>>> >>, FALSE)),
    Vmess(Json(<< <<"ps", <<>>>>, <<"add", <<"h">>>> >>, FALSE)),
    Vmess(Json(<< <<"add", <<"h">>>>, <<"ps", <<"A", "node1">>>> >>, TRUE)),
    [LineV EXCEPT !.frag = TRUE, !.name = <<"foo">>],
    Vmess(NoJson) }

PrependPrefixes == {"", "A", "Ab", "SourceA"}

\* The implementation called: the one of functions/ or the one of src/lib.
PrependImpl(impl, link, prefix) ==
  IF impl = "lib" THEN prependNodeNameLib(link, prefix) ELSE prependNodeName(link, prefix)

\* prependNodeName(link, prefix) is called.
PrependCall ==
  /\ call.fn = "none"
  /\ \E impl \in {"functions", "lib"}, link \in PrependLinks, prefix \in PrependPrefixes :
       call' = [fn |-> "prependNodeName", impl |-> impl, link |-> link, prefix |-> prefix,
                calls |-> 1, result |-> PrependImpl(impl, link, prefix),
                first |-> PrependImpl(impl, link, prefix)]
  /\ UNCHANGED handlerVars

\* It is called again on what it returned, with the same prefix.
PrependAgain ==
  /\ call.fn = "prependNodeName" /\ call.calls = 1
  /\ call' = [call EXCEPT !.calls = 2,
                          !.result = PrependImpl(call.impl, call.result, call.prefix)]
  /\ UNCHANGED handlerVars

\* ------------------------------------------------------------- retryFetch

\* What one createTimeoutFetch can come to: a response of any status, the
\* abort by the timer, or a rejected fetch.
RetryOutcomes ==
  {[kind |-> "response", status |-> st] : st \in {200, 404, 500}}
    \cup {[kind |-> "abort", status |-> 0], [kind |-> "network", status |-> 0]}

RECURSIVE Pow2(_)
Pow2(n) == IF n = 0 THEN 1 ELSE 2 * Pow2(n - 1)

\* A delay that does not grow.
Delay_Constant(baseDelay, attempt) == baseDelay

\* baseDelay * Math.pow(2, attempt)
Delay(baseDelay, attempt) == baseDelay * Pow2(attempt)

\* An await that takes a response of status 400 or more for a failure.
Resolves_OnlyBelow400(outcome) == outcome.kind = "response" /\ outcome.status < 400

\* await createTimeoutFetch(...) resolves: the fetch answered, whatever the
\* status.
Resolves(outcome) == outcome.kind = "response"

\* retryFetch(input, init, {maxRetries, timeout, baseDelay}) is called.
RetryCall ==
  /\ call.fn = "none"
  /\ \E maxRetries \in 0..MaxRetriesBound, baseDelay \in {1, 3} :
       call' = [fn |-> "retryFetch", maxRetries |-> maxRetries, baseDelay |-> baseDelay,
                pc |-> "attempt", attempt |-> 0, attempts |-> <<>>, waits |-> <<>>,
                result |-> [kind |-> "none", status |-> 0]]
  /\ UNCHANGED handlerVars

\* One pass of the loop: the attempt resolves and is returned, or fails and
\* is rethrown (the last one) or followed by a wait.
RetryAttempt ==
  /\ call.fn = "retryFetch" /\ call.pc = "attempt"
  /\ \E outcome \in RetryOutcomes :
       LET c == [call EXCEPT !.attempts = Append(@, outcome)]
       IN call' =
            IF Resolves(outcome) THEN [c EXCEPT !.pc = "returned", !.result = outcome]
            ELSE IF call.attempt = call.maxRetries
            THEN [c EXCEPT !.pc = "threw", !.result = outcome]
            ELSE [c EXCEPT !.pc = "waiting",
                           !.waits = Append(@, Delay(call.baseDelay, call.attempt))]
  /\ UNCHANGED handlerVars

\* The timer of the wait fires: the next pass.
RetryWake ==
  /\ call.fn = "retryFetch" /\ call.pc = "waiting"
  /\ call' = [call EXCEPT !.pc = "attempt", !.attempt = @ + 1]
  /\ UNCHANGED handlerVars

\* ------------------------------------------------------- user agent policy

\* A User-Agent is kept as the sequence of its parts.  UserAgents are the
\* values of the request header, <<>> for a request without one.
UserAgents == { <<>>, <<"clash-verge">>, <<"sing-box", "/1.8">>, <<"SFA ", "Sing-Box">> }

\* String.prototype.toLowerCase on a User-Agent.
uaToLowerCase(ua) == [i \in 1..Len(ua) |-> IF ua[i] = "Sing-Box" THEN "sing-box" ELSE ua[i]]

\* request.headers.get('User-Agent') || "Unknown"
userAgentHeader(header) == IF header = <<>> THEN <<"Unknown">> ELSE header

\* The query of a request: target is <<>> when the parameter is absent and
\* <<value>> when it is there (the value may be ''); flags are the names of
\* the other parameters.
SearchParams ==
  [target : {<<>>, <<"">>, <<"surge">>, <<"v2ray">>},
   flags : SUBSET {"clash", "singbox", "surge", "loon", "base64"}]

supportedFormats == <<"clash", "singbox", "surge", "loon", "base64">>

\* A loop that keeps the last listed flag that is there.
FirstFlag_LastListed(flags) ==
  LET there == SelectSeq(supportedFormats, LAMBDA f : f \in flags)
  IN IF there = <<>> THEN "" ELSE there[Len(there)]

\* The loop over supportedFormats: the first one the query has, '' if none.
FirstFlag(flags) ==
  LET there == SelectSeq(supportedFormats, LAMBDA f : f \in flags)
  IN IF there = <<>> THEN "" ELSE Head(there)

\* The target format, as the handler of [[path]].js determines it.
determineTargetFormat(ua, searchParams) ==
  LET fromTarget == IF searchParams.target = <<>> THEN "" ELSE searchParams.target[1]
      fromFlags == IF fromTarget # "" THEN fromTarget ELSE FirstFlag(searchParams.flags)
  IN IF fromFlags # "" THEN fromFlags
     ELSE IF includes(uaToLowerCase(ua), "sing-box") THEN "singbox"
     ELSE "clash"

\* Values a caller can pass for originalUserAgent.
JsUndefined == [type |-> "undefined", value |-> ""]
JsNull == [type |-> "null", value |-> ""]
JsString(s) == [type |-> "string", value |-> s]
DeclaredUserAgents ==
  {JsUndefined, JsNull, JsString(""), JsString("clash-verge"), JsString("v2rayN/7.23")}

\* getProcessedUserAgent(originalUserAgent)
getProcessedUserAgent(originalUserAgent) ==
  IF originalUserAgent.type # "string" \/ originalUserAgent.value = ""
  THEN originalUserAgent
  ELSE JsString("v2rayN/7.23")

\* The handler determines the target format of a request.
TargetFormatCall ==
  /\ call.fn \in {"none", "getProcessedUserAgent"}
  /\ \E header \in UserAgents, searchParams \in SearchParams :
       call' = [fn |-> "determineTargetFormat", header |-> header,
                searchParams |-> searchParams,
                result |-> determineTargetFormat(userAgentHeader(header), searchParams)]
  /\ UNCHANGED handlerVars

\* getProcessedUserAgent is called.
UserAgentCall ==
  /\ call.fn \in {"none", "determineTargetFormat"}
  /\ \E originalUserAgent \in DeclaredUserAgents :
       call' = [fn |-> "getProcessedUserAgent", originalUserAgent |-> originalUserAgent,
                result |-> getProcessedUserAgent(originalUserAgent)]
  /\ UNCHANGED handlerVars

\* ------------------------------------------------------------ specifications
ValidIdents == {<<MyToken, "">>, <<ProfileToken, "p1">>}
AllIdents == ValidIdents \cup {<<"bad", "">>, <<MyToken, "p1">>, <<ProfileToken, "zz">>}
AllTargets == {"base64", "clash"}
Cbs == {"none", "valid", "bad"}

\* One request at a time, with every input; background work interleaves.
Next ==
  \/ Tick
  \/ Receive(1, AllIdents, AllTargets, Cbs)
  \/ Resolve(1, BOOLEAN)
  \/ RefreshDone(1)
  \/ \E k \in Keys : BgRefreshDone(k)
  \/ Respond(1, BOOLEAN)
  \/ ConvAttempt(1)

Spec == Init /\ [][Next]_vars

\* Concurrent requests for the token subscription in base64: the cache manager.
InitCache == Init /\ settings.subConverter = ShortHost

NextCache ==
  \/ Tick
  \/ \E r \in RIDs : Receive(r, {<<MyToken, "">>}, {"base64"}, {"none"})
  \/ \E r \in RIDs : Resolve(r, BOOLEAN)
  \/ \E r \in RIDs : RefreshDone(r)
  \/ \E k \in Keys : BgRefreshDone(k)
  \/ \E r \in RIDs : Respond(r, {FALSE})

SpecCache == InitCache /\ [][NextCache]_vars

\* Requests of every identity, with access logging on: the download count.
InitLog ==
  /\ now = 0
  /\ settings = [subConverter |-> ShortHost, prependSubName |-> TRUE, enableAccessLog |-> TRUE]
  /\ downloadCount = 0
  /\ pendingPuts = {}
  /\ cache = [k \in Keys |-> NoEntry]
  /\ handle = [k \in Keys |-> FALSE]
  /\ bg = [k \in Keys |-> <<>>]
  /\ staleServed = [k \in Keys |-> FALSE]
  /\ lastRefresh = [k \in Keys |-> "none"]
  /\ req = [r \in RIDs |-> Idle]
  /\ call = NoCall

LogIdents == AllIdents \cup {<<ProfileToken, "p2">>, <<"", "">>}

NextLog ==
  \/ Tick
  \/ Receive(1, LogIdents, AllTargets, Cbs)
  \/ Resolve(1, {FALSE})
  \/ RefreshDone(1)
  \/ \E k \in Keys : BgRefreshDone(k)
  \/ Respond(1, {FALSE})
  \/ ConvAttempt(1)
  \/ DownloadCountPut

SpecLog == InitLog /\ [][NextLog]_vars

\* Calls of fetchSubscriptionWithFallback, one after the other.
NextFetch ==
  \/ FetchCall
  \/ FetchTier1
  \/ FetchTier2

SpecFetch == Init /\ [][NextFetch]_vars

\* One call of generateCombinedNodeList, its fetches settling in any order.
NextAgg ==
  \/ AggCall
  \/ AggFetchDone
  \/ AggJoin

SpecAgg == Init /\ [][NextAgg]_vars

\* The same call with upstream bodies that may never end.  Timers fire and
\* settled promises are joined: every enabled step of the call is taken.
NextAggLive ==
  \/ AggCall
  \/ AggFetchDone
  \/ AggBodyHangs
  \/ AggJoin

SpecAggLive ==
  Init /\ [][NextAggLive]_vars /\ WF_vars(AggFetchDone) /\ WF_vars(AggJoin)


\* The lines generateCombinedNodeList keeps of one text.
NextLines == LinesCall

SpecLines == Init /\ [][NextLines]_vars

\* The membership filter of a profile request on every stored list.
NextMembership == MembershipCall

SpecMembership == Init /\ [][NextMembership]_vars

\* Countable profile requests, their deferred writes and admin saves, in any
\* interleaving.
NextCount ==
  \/ CountStart
  \/ \E r \in RIDs : CountRequest(r)
  \/ \E r \in RIDs : CountPut(r)
  \/ AdminSave

SpecCount == Init /\ [][NextCount]_vars

\* Calls of /api/migrate, one after another or interleaved at their awaits.
NextMigrate ==
  \/ MigrateStart
  \/ \E r \in RIDs : MigrateCall(r)
  \/ \E r \in RIDs : MigrateRead(r)
  \/ \E r \in RIDs : MigrateStep(r)

SpecMigrate == Init /\ [][NextMigrate]_vars

\* One run of DataMigrator.migrateKVToD1.
NextMigrateKVToD1 ==
  \/ MigrateKVToD1Call
  \/ MigrateKVToD1Step

SpecMigrateKVToD1 == Init /\ [][NextMigrateKVToD1]_vars

\* One call of conditionalKVPut.
NextKVPut == ConditionalKVPutCall

SpecKVPut == Init /\ [][NextKVPut]_vars

\* Requests to /api over time, with and without a session.
NextApi ==
  \/ ApiStart
  \/ ApiTick
  \/ ApiRequest

SpecApi == Init /\ [][NextApi]_vars

\* prependNodeName applied once and twice to a link.
NextPrepend ==
  \/ PrependCall
  \/ PrependAgain

SpecPrepend == Init /\ [][NextPrepend]_vars

\* One call of retryFetch.
NextRetry ==
  \/ RetryCall
  \/ RetryAttempt
  \/ RetryWake

SpecRetry == Init /\ [][NextRetry]_vars

\* Calls of the two functions of the user agent policy.
NextUserAgent ==
  \/ TargetFormatCall
  \/ UserAgentCall

SpecUserAgent == Init /\ [][NextUserAgent]_vars

\* ------------------------------------------------------------ properties
KeyFresh(k) == cache[k] # NoEntry /\ now - cache[k].at < TTL
KeyStale(k) == cache[k] # NoEntry /\ now - cache[k].at >= TTL

\* Request r leaves resolveNodeListWithCache's entry point in this step.
ResolveStep(r) == req[r].pc = "resolve" /\ req'[r].pc # "resolve"

\* What a refresh of key k can produce, whichever request's closure runs it.
Produced(k) ==
  LET pid == IF k[1] = "profile" THEN k[2] ELSE ""
  IN UNION {{refreshNodes(pid, expired, f) : f \in FetchResults(TargetMisubs(pid, expired))} :
              expired \in BOOLEAN}

\* C1: single-flight.  At no reachable state are two refreshes of the same
\* key in flight, and from the moment stale content of a key is served until
\* the refresh it triggered ends, exactly one refresh of the key is in flight,
\* however many concurrent requests resolved the same stale key.
C1_SingleFlight ==
  \A k \in Keys :
    /\ InFlight(k) <= 1
    /\ staleServed[k] => InFlight(k) = 1
    /\ InFlight(k) = 1 <=> handle[k]

\* Every request slot holds stale content of the same key while one refresh
\* of it is in flight.
C1_Witness ==
  \E k \in Keys :
    /\ \A r \in RIDs : /\ req[r].pc = "respond"
                       /\ req[r].cacheHdr = "STALE"
                       /\ KeyOf(req[r]) = k
    /\ InFlight(k) = 1

\* C2: a resolve that finds a stale entry without forceRefresh returns the
\* cached content without waiting (cache status STALE), leaves the entry as
\* it is and has exactly one refresh of the key scheduled or running behind
\* the response; a background refresh that fails leaves the entry with its
\* previous content, stale, and no refresh in flight.
C2_StaleServedRefreshBehind ==
  [][ /\ \A r \in RIDs :
           (ResolveStep(r) /\ ~req'[r].force /\ KeyStale(KeyOf(req[r]))) =>
             LET k == KeyOf(req[r])
             IN /\ req'[r].pc = "respond"
                /\ req'[r].nodes = cache[k].nodes
                /\ req'[r].cacheHdr = "STALE"
                /\ cache' = cache
                /\ handle'[k]
                /\ (InFlight(k))' = 1
                /\ InFlight(k) = 0 =>
                     bg'[k] = <<[pid |-> req[r].pid, expired |-> req[r].expired]>>
      /\ \A k \in Keys :
           (Len(bg'[k]) < Len(bg[k]) /\ lastRefresh'[k] = "failed") =>
             /\ cache'[k] = cache[k]
             /\ (KeyStale(k))'
             /\ ~handle'[k]
    ]_vars

\* A request holds stale content, not yet answered, and the refresh behind
\* it has failed: the entry is stale and no refresh is in flight.
C2_Witness ==
  \E r \in RIDs :
    LET k == KeyOf(req[r])
    IN /\ req[r].pc = "respond"
       /\ req[r].cacheHdr = "STALE"
       /\ req[r].nodes = cache[k].nodes
       /\ req[r].nodes # <<>>
       /\ lastRefresh[k] = "failed"
       /\ KeyStale(k)
       /\ ~handle[k]

\* C3: a resolve that finds a fresh entry without forceRefresh returns the
\* cached content with cache status HIT; it neither starts nor schedules a
\* refresh (so nothing is fetched) and the cache is not written.
C3_FreshHit ==
  [][ \A r \in RIDs :
        (ResolveStep(r) /\ ~req'[r].force /\ KeyFresh(KeyOf(req[r]))) =>
          LET k == KeyOf(req[r])
          IN /\ req'[r].pc = "respond"
             /\ req'[r].nodes = cache[k].nodes
             /\ req'[r].cacheHdr = "HIT"
             /\ cache' = cache
             /\ bg' = bg
             /\ handle' = handle
             /\ \A k2 \in Keys : (InFlight(k2))' = InFlight(k2)
    ]_vars

\* A request holds a non-empty list from a fresh entry, with no refresh of
\* the key in flight.
C3_Witness ==
  \E r \in RIDs :
    LET k == KeyOf(req[r])
    IN /\ req[r].pc = "respond"
       /\ req[r].cacheHdr = "HIT"
       /\ req[r].nodes # <<>>
       /\ req[r].nodes = cache[k].nodes
       /\ KeyFresh(k)
       /\ InFlight(k) = 0

RunningClosure(k) ==
  IF \E r \in RIDs : req[r].pc = "refreshing" /\ KeyOf(req[r]) = k
  THEN LET r == CHOOSE x \in RIDs : req[x].pc = "refreshing" /\ KeyOf(req[x]) = k
       IN [pid |-> req[r].pid, expired |-> req[r].expired]
  ELSE Head(bg[k])

\* The names of the sources the aggregation fetches over HTTP.
HttpSourceNames(misubs) == NamesOf(SelectSeq(misubs, LowerStartsWithHttp))

\* C5: every completed refresh of key k, awaited or in the background,
\* replaces the entry of k with the newly aggregated list, the names of the
\* HTTP sources it aggregated and the current time, and leaves the entry of
\* every other key as it was.
C5_RefreshReplacesEntryWholesale ==
  [][ \A k \in Keys :
        (InFlight(k) = 1 /\ lastRefresh'[k] = "ok" /\ lastRefresh[k] # "ok") =>
          LET c == RunningClosure(k)
              misubs == TargetMisubs(c.pid, c.expired)
          IN /\ cache'[k].nodes \in
                  {refreshNodes(c.pid, c.expired, f) : f \in FetchResults(misubs)}
             /\ cache'[k].sourceNames = HttpSourceNames(misubs)
             /\ cache'[k].at = now
             /\ \A k2 \in Keys \ {k} : cache'[k2] = cache[k2]
    ]_vars

\* One line, the sentinel's link, whatever prefix its display name was given.
IsSentinelOnly(nodes) == Len(nodes) = 1 /\ nodes[1].body = DEFAULT_EXPIRED_NODE.body

\* C6: a request to an enabled profile whose expiresAt is in the past is
\* delivered the sentinel line and nothing else as its node list, on every
\* response path that delivers the list (base64, NekoBox fallback, converter
\* callback, converter-failure fallback) and whatever the cache holds for
\* the profile.
C6_ExpiredProfileGetsSentinelOnly ==
  \A r \in RIDs :
    (req[r].pc = "done" /\ req[r].expired /\ req[r].resp.kind = "base64") =>
      IsSentinelOnly(req[r].resp.nodes)

\* Every candidate of the configured converter was tried for the request and
\* none answered.
AllCandidatesFailed(q) ==
  /\ q.pc = "done"
  /\ q.tried # <<>>
  /\ Len(q.tried) = Len(getSubconverterCandidates(settings.subConverter))
  /\ q.resp.kind # "converted"

\* C7: for a target other than base64, when every converter candidate failed
\* or timed out, a non-empty aggregated list is answered with status 200, the
\* base64 of that list and the X-MiSub-Fallback header; 502 is answered only
\* when the aggregated list is empty.
C7_ConverterFailureFallsBackToBase64 ==
  \A r \in RIDs :
    LET q == req[r]
    IN /\ AllCandidatesFailed(q) =>
            /\ q.target # "base64"
            /\ IF q.nodes # <<>>
               THEN /\ q.resp.status = 200
                    /\ q.resp.kind = "base64"
                    /\ q.resp.nodes = q.nodes
                    /\ "X-MiSub-Fallback" \in q.resp.hdrs
               ELSE q.resp.status = 502
       /\ (q.pc = "done" /\ q.resp.status = 502) =>
            (AllCandidatesFailed(q) /\ q.nodes = <<>>)

\* Every candidate failed for a request with a non-empty list, and it was
\* answered 200 with the list and the fallback header.
C7_Witness ==
  \E r \in RIDs :
    /\ AllCandidatesFailed(req[r])
    /\ req[r].nodes # <<>>
    /\ req[r].resp.status = 200
    /\ req[r].resp.nodes = req[r].nodes
    /\ "X-MiSub-Fallback" \in req[r].resp.hdrs

\* C8: a request of valid identity whose target format is base64 is answered
\* with the base64 of the node list, and no converter candidate is contacted
\* for it, whatever converter host is configured, a blank one included.
C8_Base64NeedsNoConverter ==
  \A r \in RIDs :
    LET q == req[r]
    IN (q.pc = "done" /\ <<q.token, q.pid>> \in ValidIdents /\ q.target = "base64") =>
         /\ q.resp.status = 200
         /\ q.resp.kind = "base64"
         /\ q.resp.nodes = (IF q.expired THEN <<DEFAULT_EXPIRED_NODE>> ELSE q.nodes)
         /\ q.tried = <<>>

\* C9: the converter client contacts the candidates in their ranked order,
\* one more per attempt and only while the request awaits the converter; the
\* answer of the first candidate that succeeds is the response, and the
\* attempts end with it.
C9_CandidatesInRankedOrder ==
  [][ \A r \in RIDs :
        LET q == req[r]
            q2 == req'[r]
            candidates == getSubconverterCandidates(settings.subConverter)
        IN /\ q2.tried # q.tried =>
                \/ q.pc = "done" /\ q2.tried = <<>>
                \/ /\ q.pc = "convert"
                   /\ Len(q.tried) < Len(candidates)
                   /\ q2.tried = Append(q.tried, candidates[Len(q.tried) + 1])
           /\ (q.pc = "convert" /\ q2.resp.kind = "converted") =>
                /\ q2.pc = "done"
                /\ q2.resp.via = q2.tried[Len(q2.tried)]
           /\ (q.pc = "convert" /\ q2.pc = "convert") =>
                Len(q2.tried) < Len(candidates)
    ]_vars

\* The first candidate failed and the second answered: its response is
\* returned.
C9_Witness ==
  \E r \in RIDs :
    LET candidates == getSubconverterCandidates(settings.subConverter)
    IN /\ req[r].pc = "done"
       /\ req[r].resp.kind = "converted"
       /\ req[r].tried = candidates
       /\ req[r].resp.via = candidates[2]

\* C10: when every converter candidate failed, the error message the handler
\* logs and the one it sends (the X-MiSub-Error header, or the 502 body)
\* name every endpoint that was attempted.
C10_ErrorNamesEveryEndpoint ==
  \A r \in RIDs :
    LET q == req[r]
    IN AllCandidatesFailed(q) =>
         \A i \in 1..Len(q.tried) :
           Names(q.log, q.tried[i]) /\ Names(q.resp.err, q.tried[i])

\* The call has run tier 1 (and possibly more).
PastTier1 == call.fn = "fetch" /\ call.pc # "tier1"

HasSignature(text) == \E sig \in ChallengeSignatures : includes(text, sig)

DirectSuccess ==
  /\ call.pc = "returned"
  /\ call.result.success
  /\ call.result.method = "direct"
  /\ call.result.content = call.t1.body
  /\ call.contacted = <<"direct">>

\* C11, as stated: tier 1 is attempted first; a 2xx response with a non-empty
\* body that has no challenge signature gives success=true, method=direct
\* without the conversion service being contacted; the conversion service is
\* contacted only after tier 1 failed (non-2xx, empty body, challenge page,
\* timeout or network error).
C11_DirectFirst_NonEmptyBody ==
  PastTier1 =>
    /\ call.contacted[1] = "direct"
    /\ (call.t1.kind = "response" /\ call.t1.ok /\ call.t1.body # <<>>
          /\ ~HasSignature(call.t1.body)) => DirectSuccess
    /\ includes(call.contacted, "subconverter") =>
         \/ call.t1.kind \in {"timeout", "error"}
         \/ ~call.t1.ok
         \/ call.t1.body = <<>>
         \/ HasSignature(call.t1.body)

\* C11, amended: the same with "non-empty" read after trimming, a body of
\* white space only being a tier-1 failure like an empty one.
C11_DirectFirst_NonBlankBody ==
  PastTier1 =>
    /\ call.contacted[1] = "direct"
    /\ (call.t1.kind = "response" /\ call.t1.ok /\ trim(call.t1.body) # <<>>
          /\ ~HasSignature(call.t1.body)) => DirectSuccess
    /\ includes(call.contacted, "subconverter") =>
         \/ call.t1.kind \in {"timeout", "error"}
         \/ ~call.t1.ok
         \/ trim(call.t1.body) = <<>>
         \/ HasSignature(call.t1.body)

\* Tier 1 answered node lines surrounded by white space; the call returned
\* them as they came, with the conversion service configured and not contacted.
C11_Witness ==
  /\ PastTier1
  /\ DirectSuccess
  /\ call.t1.body = <<"ws", "line", "ws">>
  /\ call.hasKV
  /\ call.read = "stored"
  /\ settings.subConverter # ""

\* Tier 1 failed and the conversion service answered 2xx.
Tier2Answered ==
  /\ call.fn = "fetch" /\ call.pc = "returned"
  /\ call.contacted = <<"direct", "subconverter">>
  /\ call.t2.kind = "response" /\ call.t2.ok

\* The body is base64 once its white space is set aside.
ValidBase64(body) == \A i \in 1..Len(body) : body[i].k \in {"group", "ws"}

\* The bytes a base64 body encodes, group after group.
DecodedBytes(body) ==
  Flatten([i \in 1..Len(body) |-> IF body[i].k = "group" THEN body[i].b ELSE <<>>])

\* C12: when tier 1 fails and the conversion service answers 2xx, the result
\* is success=true with method=indirect, and its content is the base64-decoded
\* body, or the raw body when that is not valid base64.
C12_IndirectResult ==
  Tier2Answered =>
    /\ call.result.success
    /\ call.result.method = "indirect"
    /\ call.result.content = IF ValidBase64(call.t2.body) THEN DecodedBytes(call.t2.body)
                             ELSE call.t2.body

\* Tier 1 did not succeed, by its outcome.
Tier1Failed ==
  \/ call.t1.kind \in {"timeout", "error"}
  \/ ~call.t1.ok
  \/ trim(call.t1.body) = <<>>
  \/ HasSignature(call.t1.body)

\* Tier 2 was not available (no MISUB_KV binding, or a blank converter host)
\* or it did not answer 2xx.
Tier2FailedOrUnavailable ==
  \/ call.contacted = <<"direct">>
  \/ call.t2.kind \in {"timeout", "error"}
  \/ ~call.t2.ok

\* C13: fetchSubscriptionWithFallback never throws; whatever the outcomes of
\* the two tiers and of the settings read, every call ends by returning a
\* FetchResult, and when both tiers failed, or tier 2 was unavailable, the
\* result is success=false, method=failed, empty content, non-empty error.
C13_NeverThrows ==
  call.fn = "fetch" =>
    /\ call.pc \in {"tier1", "tier2", "returned"}
    /\ call.pc = "returned" =>
         /\ call.result.success \in BOOLEAN
         /\ call.result.method \in {"direct", "subconverter", "failed"}
         /\ call.result.success <=> call.result.method # "failed"
         /\ (Tier1Failed /\ Tier2FailedOrUnavailable) =>
              /\ ~call.result.success
              /\ call.result.method = "failed"
              /\ call.result.content = <<>>
              /\ call.result.error # ""

\* The direct fetch timed out, the settings could not be read, and the fetch
\* of the conversion service rejected: the failure result was returned.
C13_Witness ==
  /\ call.fn = "fetch" /\ call.pc = "returned"
  /\ call.t1.kind = "timeout"
  /\ call.read = "error"
  /\ call.t2.kind = "error"
  /\ call.contacted = <<"direct", "subconverter">>
  /\ call.result = FailedResult


\* The feeds of the run whose fetch failed: a response that is not 2xx, the
\* timeout, or a rejected fetch.
FailedFeeds ==
  {call.arrived[i].id : i \in {j \in 1..Len(call.arrived) :
      ~(call.arrived[j].outcome.kind = "response" /\ call.arrived[j].outcome.ok)}}

\* The text each feed of the run answered, '' for a failed one.
AnsweredTexts ==
  [id \in {call.arrived[i].id : i \in 1..Len(call.arrived)} |->
     LET o == call.arrived[CHOOSE i \in 1..Len(call.arrived) : call.arrived[i].id = id].outcome
     IN IF o.kind = "response" /\ o.ok THEN o.text ELSE <<>>]

\* The subscription list without the source id.
WithoutSource(misubs, id) == SelectSeq(misubs, LAMBDA sub : sub.id # id)

AggJoined == call.fn = "generateCombinedNodeList" /\ call.joined

\* C14: when the fetch of a source fails (non-2xx, timeout, network error)
\* the aggregation still completes, and its output is the aggregation of the
\* manual nodes and the remaining sources, as if the failed source were not
\* configured.
C14_FailedSourceContributesNothing ==
  AggJoined =>
    \A id \in FailedFeeds :
      call.result =
        generateCombinedNodeList(call.prependSubName, WithoutSource(call.misubs, id),
                                 AnsweredTexts)

\* A run has completed in which one source answered a non-2xx response with a
\* node in its body, and the output holds the manual node and the other
\* source's node only.
C14_Witness ==
  /\ AggJoined
  /\ call.misubs = allMisubs /\ ~call.prependSubName
  /\ \E i \in 1..2 :
       /\ call.arrived[i].id = "s1"
       /\ call.arrived[i].outcome = [kind |-> "response", ok |-> FALSE, text |-> <<LineT>>]
  /\ \E i \in 1..2 :
       /\ call.arrived[i].id = "s2"
       /\ call.arrived[i].outcome = [kind |-> "response", ok |-> TRUE, text |-> <<LineV>>]
  /\ call.result = <<allMisubs[3].link, LineV>>

\* The feeds of the run in the order of the configuration.
ConfiguredFeeds == SelectSeq(call.misubs, LowerStartsWithHttp)

\* The nodes each feed of the run contributed, in the order of the
\* configuration.
ContentsInConfigOrder ==
  [i \in 1..Len(ConfiguredFeeds) |->
     SubContent(call.prependSubName, ConfiguredFeeds[i], 
                call.arrived[CHOOSE j \in 1..Len(call.arrived) :
                               call.arrived[j].id = ConfiguredFeeds[i].id].outcome)]

\* C15: for every completion order of the concurrent fetches of one run the
\* output is the same: the manual nodes first, then each source's nodes in
\* the configuration order of the sources, a duplicated line keeping the
\* position of its first occurrence.
C15_OutputInConfigurationOrder ==
  AggJoined =>
    call.result =
      Dedup(ManualNodes(call.prependSubName, call.misubs) \o Flatten(ContentsInConfigOrder))

\* A run has completed in which the second source answered before the first,
\* both with the same trojan node; the output has the manual node, then the
\* first source's node, then what the second source added.
C15_Witness ==
  /\ AggJoined
  /\ call.misubs = allMisubs /\ ~call.prependSubName
  /\ call.arrived[1].id = "s2" /\ call.arrived[2].id = "s1"
  /\ call.arrived[1].outcome.text = <<LineVOrder, LineT>>
  /\ call.arrived[2].outcome.text = <<LineTPad, LineBlank, LineT>>
  /\ call.arrived[1].outcome.ok /\ call.arrived[2].outcome.ok
  /\ call.result = <<allMisubs[3].link, LineT, LineVOrder>>

\* How many times the line occurs in the list.
Occurrences(lines, line) == Cardinality({i \in 1..Len(lines) : lines[i] = line})

\* The lines the run combines: the processed manual nodes and every source's
\* processed lines together.
CombinedInputs ==
  ManualNodes(call.prependSubName, call.misubs) \o Flatten(ContentsInConfigOrder)

\* The node lines the sources of the run answered, trimmed, that pass the
\* name filter.
AnsweredNodeLines ==
  LET answered == UNION {Range(call.arrived[i].outcome.text) :
                           i \in {j \in 1..Len(call.arrived) :
                                    call.arrived[j].outcome.kind = "response"
                                    /\ call.arrived[j].outcome.ok}}
  IN {l \in {trimLine(x) : x \in answered} : nodeRegex(l) /\ NameFilter(l)}

\* C16: the output never holds two equal lines nor an empty or untrimmed
\* line; a line that occurs once or N>1 times among the lines combined
\* (manual nodes and all sources together, after trimming) is in the output
\* exactly once, and two lines that differ only in display name are both in
\* the output.  Without prefixing this is said of the very lines the
\* sources answered.
C16_OutputHasEachLineOnce ==
  AggJoined =>
    /\ \A i, j \in 1..Len(call.result) : i # j => call.result[i] # call.result[j]
    /\ \A i \in 1..Len(call.result) : call.result[i].body # "" /\ ~call.result[i].pad
    /\ \A l \in Range(CombinedInputs) : Occurrences(call.result, l) = 1
    /\ \A l1, l2 \in Range(CombinedInputs) :
         ([l1 EXCEPT !.name = <<>>, !.frag = FALSE] = [l2 EXCEPT !.name = <<>>, !.frag = FALSE]
            /\ l1 # l2)
           => l1 \in Range(call.result) /\ l2 \in Range(call.result)
    /\ ~call.prependSubName =>
         \A l \in AnsweredNodeLines : Occurrences(call.result, l) = 1

\* A run without prefixing has completed in which the same trojan line came
\* from a manual entry (untrimmed) and twice from one source, with a blank
\* line between, and the other source answered that link under another name:
\* the output holds the line once and the other name's line too.
C16_Witness ==
  /\ AggJoined /\ ~call.prependSubName
  /\ call.misubs = <<ManualV, allMisubs[1], ManualT, allMisubs[2]>>
  /\ \E i \in 1..2 : /\ call.arrived[i].id = "s1" /\ call.arrived[i].outcome.ok
                     /\ call.arrived[i].outcome.text = <<LineTPad, LineBlank, LineT>>
  /\ \E i \in 1..2 : /\ call.arrived[i].id = "s2" /\ call.arrived[i].outcome.ok
                     /\ call.arrived[i].outcome.text = <<LineT2, LineText>>
  /\ Occurrences(CombinedInputs, LineT) = 3
  /\ call.result = <<LineV, LineT, LineT2>>

\* Two vmess links whose decoded payloads are the same object: the same
\* members, whatever their order and the white space between them.
SameVmessObject(l1, l2) ==
  /\ VmessDecodable(l1) /\ VmessDecodable(l2)
  /\ Range(l1.json.fields) = Range(l2.json.fields)

\* C17: two vmess entries whose decoded payloads are the same object up to
\* white space and member order are normalized to the identical line, from
\* manual nodes or from fetched sources, with or without prefixing, so the
\* output holds that node once.
C17_SameVmessObjectOnce ==
  AggJoined =>
    \A i, j \in 1..Len(call.result) :
      SameVmessObject(call.result[i], call.result[j]) => i = j

\* The manual entries of the run with their urls replaced by the processed
\* manual nodes.
ManualNodesFedBack ==
  LET out == ManualNodes(call.prependSubName, call.misubs)
  IN [i \in 1..Len(out) |->
        [id |-> "m", scheme |-> "manual", name |-> "", enabled |-> TRUE, link |-> out[i]]]

\* C18: normalization is idempotent: normalizing the output of a
\* normalization again, under the same source name and prefix policy, gives
\* the same lines, for the manual nodes and for every source that answered.
C18_NormalizationIdempotent ==
  AggJoined =>
    /\ ManualNodes(call.prependSubName, ManualNodesFedBack)
         = ManualNodes(call.prependSubName, call.misubs)
    /\ \A i \in 1..Len(ConfiguredFeeds) :
         ProcessSub(call.prependSubName, ConfiguredFeeds[i], ContentsInConfigOrder[i])
           = ContentsInConfigOrder[i]

\* C19: prependNodeName is idempotent in the prefix: for every link (with a
\* name after '#', without a fragment, or vmess) and every non-empty prefix
\* X, prependNodeName(prependNodeName(link, X), X) = prependNodeName(link, X),
\* in each of its implementations.
C19_PrefixIdempotent ==
  (call.fn = "prependNodeName" /\ call.calls = 2 /\ call.prefix # "")
    => call.result = call.first

\* prependNodeName of functions/ has been applied twice to a vmess link with
\* ps 'node1' and prefix 'A': both results have ps 'A - node1'.
C19_Witness ==
  /\ call.fn = "prependNodeName" /\ call.calls = 2 /\ call.impl = "functions"
  /\ call.link = LineVWs /\ call.prefix = "A"
  /\ call.first = Vmess(Json(<< <<"add", <<"h">>>>, <<"ps", <<"A", "node1">>>> >>, FALSE))
  /\ call.result = call.first

\* The members of a payload other than ps.
OtherMembers(fields) == SelectSeq(fields, LAMBDA m : m[1] # "ps")

\* C20: for a vmess link with a decodable JSON payload, prefixing changes only
\* the ps member: the result is a vmess link with no fragment added, whose
\* decoded ps is "{prefix} - {old ps}", or the prefix alone when ps was
\* empty, and whose other members are unchanged.
C20_VmessPrefixGoesToPs ==
  (call.fn = "prependNodeName" /\ call.prefix # "" /\ VmessDecodable(call.link))
    => /\ call.first.body = "vmess" /\ ~call.first.frag /\ call.first.name = <<>>
       /\ call.first.json.ok
       /\ JsonPs(call.first.json.fields) = <<call.prefix>> \o JsonPs(call.link.json.fields)
       /\ OtherMembers(call.first.json.fields) = OtherMembers(call.link.json.fields)

\* The decoded display name of the line (the name after '#', or ps of a vmess
\* payload) holds a url.
HasUrlInName(l) ==
  \/ l.frag /\ "https://x" \in Range(l.name)
  \/ VmessDecodable(l) /\ "https://x" \in Range(JsonPs(l.json.fields))

\* C21: no line of the output has a display name that holds an embedded url
\* scheme marker: every input line whose name (fragment, or ps for vmess)
\* holds one is rejected, for manual nodes as for fetched sources.
C21_NoUrlInDisplayName ==
  AggJoined => \A i \in 1..Len(call.result) : ~HasUrlInName(call.result[i])

\* A malformed entry: a vmess link whose payload cannot be decoded, or a
\* link whose display name cannot be percent-decoded.
Malformed(l) ==
  \/ l.body = "vmess" /\ ~l.json.ok
  \/ l.frag /\ DecodeThrows(l.name)

\* The subscription list of the run without its malformed manual entries.
WellFormedMisubs ==
  SelectSeq(call.misubs, LAMBDA sub : LowerStartsWithHttp(sub) \/ ~Malformed(sub.link))

\* The texts the feeds of the run answered without their malformed lines.
WellFormedTexts ==
  [id \in DOMAIN AnsweredTexts |-> SelectSeq(AnsweredTexts[id], LAMBDA l : ~Malformed(l))]

\* C22: a malformed entry (a vmess payload that cannot be decoded, a display
\* name that cannot be percent-decoded), manual or fetched, is dropped and
\* costs neither another entry nor the aggregation: the run does not throw
\* and its output is the output for the same inputs without that entry.
C22_MalformedEntryDropped ==
  call.fn = "generateCombinedNodeList" =>
    /\ ~call.threw
    /\ call.joined =>
         call.result =
           generateCombinedNodeList(call.prependSubName, WellFormedMisubs, WellFormedTexts)

\* The token of the request is not the configured one (the profile token for
\* a profile link).
InvalidToken(q) ==
  \/ q.token = ""
  \/ q.pid # "" /\ q.token # ProfileToken
  \/ q.pid = "" /\ q.token # MyToken

\* The profile identifier of the request names no profile, or a disabled one.
InvalidProfile(q) ==
  q.pid # "" /\ (FindProfile(q.pid) = <<>> \/ ~Head(FindProfile(q.pid)).enabled)

\* The handler takes up a request and runs up to its first suspension.
ReceiveStep == req[1].pc \in {"idle", "done"} /\ req'[1] # req[1]

AcceptableCallbackToken(cb) ==
  /\ cb = getCallbackToken(now)
  /\ \A t \in 0..now : cb = getCallbackToken(t) => now - t < CallbackTokenLifetime

\* The request taken up is for the enabled profile with its token, access
\* logging is on, and its download is not counted.
ExemptFromCounting ==
  /\ ReceiveStep /\ settings.enableAccessLog
  /\ ~InvalidToken(req'[1]) /\ req'[1].pid # "" /\ ~InvalidProfile(req'[1])
  /\ (downloadCount + 1) \notin pendingPuts'

\* The request is answered by the branch of the callback token.
ServedAsCallback ==
  /\ req[1].pc = "respond" /\ req'[1].pc = "done"
  /\ req[1].target # "base64"

\* C24: a request that carries callback_token is treated as a converter
\* callback (served the raw node content, exempt from download counting and
\* access logging) only if the token equals the signed token and is within
\* its lifetime; a token issued earlier is no longer accepted once its
\* lifetime has passed.
C24_CallbackTokenShortLived ==
  [][(ExemptFromCounting \/ ServedAsCallback) => AcceptableCallbackToken(req'[1].cb)]_vars

\* The stored profile-list record: the profiles, with the download count of
\* profile p1.  (The subscription-list record is allMisubs: the handler has
\* no write of it.)
StoredProfiles ==
  [i \in 1..Len(allProfiles) |->
     [profile |-> allProfiles[i],
      downloadCount |-> IF allProfiles[i].id = "p1" THEN downloadCount ELSE 0]]

\* C25: handling a subscription request never changes the stored
\* subscription-list record nor the stored profile-list record, the deferred
\* work the request scheduled included.
C25_StoredListsUnchanged == [][StoredProfiles' = StoredProfiles]_vars

RetryEnded == call.fn = "retryFetch" /\ call.pc \in {"returned", "threw"}

\* Every attempt of the call but the last one failed.
AllButLastFailed ==
  \A i \in 1..(Len(call.attempts) - 1) : call.attempts[i].kind # "response"

\* C26: retryFetch ends after at most maxRetries+1 attempts: it returns the
\* first attempt that resolves and makes no further one, waits
\* baseDelay * 2^attempt (attempt counted from 0) between a failed attempt and
\* the next, and after the last failed attempt rethrows that attempt's error
\* without waiting.
C26_RetryBoundedBackoff ==
  call.fn = "retryFetch" =>
    /\ Len(call.attempts) <= call.maxRetries + 1
    /\ AllButLastFailed
    /\ \A i \in 1..Len(call.waits) : call.waits[i] = call.baseDelay * (2 ^ (i - 1))
    /\ Len(call.waits) = IF RetryEnded THEN Len(call.attempts) - 1 ELSE Len(call.attempts)
    /\ call.pc = "returned" =>
         /\ call.result = call.attempts[Len(call.attempts)]
         /\ call.result.kind = "response"
    /\ call.pc = "threw" =>
         /\ Len(call.attempts) = call.maxRetries + 1
         /\ call.result = call.attempts[Len(call.attempts)]
         /\ call.result.kind # "response"
         /\ Len(call.waits) = call.maxRetries

\* A call with maxRetries 2 and baseDelay 3 has failed three times, waited 3
\* and 6 between the attempts, and rethrown the third attempt's error.
C26_Witness ==
  /\ call.fn = "retryFetch" /\ call.pc = "threw"
  /\ call.maxRetries = 2 /\ call.baseDelay = 3
  /\ Len(call.attempts) = 3 /\ call.waits = <<3, 6>>
  /\ call.attempts[3].kind = "abort" /\ call.result.kind = "abort"
  /\ call.attempts[1].kind = "network"

\* C27: retryFetch retries only after a timeout or network failure: an
\* attempt that receives a response of status 4xx is followed by no other
\* attempt, and that response is what retryFetch returns.
C27_NoRetryOnClientError ==
  call.fn = "retryFetch" =>
    \A i \in 1..Len(call.attempts) :
      (call.attempts[i].kind = "response" /\ call.attempts[i].status \in 400..499)
        => /\ i = Len(call.attempts)
           /\ call.pc = "returned"
           /\ call.result = call.attempts[i]

\* A call has failed once by the timer, waited, and then received 404, which
\* it returned.
C27_Witness ==
  /\ call.fn = "retryFetch" /\ call.pc = "returned"
  /\ Len(call.attempts) = 2 /\ call.attempts[1].kind = "abort"
  /\ call.result = [kind |-> "response", status |-> 404]
  /\ call.maxRetries = 2

TargetDetermined == call.fn = "determineTargetFormat"

\* The place of a legacy flag in the order clash, singbox, surge, loon, base64.
FlagRank(f) ==
  CASE f = "clash" -> 1 [] f = "singbox" -> 2 [] f = "surge" -> 3
    [] f = "loon" -> 4 [] f = "base64" -> 5

\* The User-Agent of the request holds 'sing-box' in some writing.
SniffedSingBox ==
  \E i \in 1..Len(call.header) : call.header[i] \in {"sing-box", "Sing-Box"}

\* The format by the precedence of the claim, where the target parameter
\* counts when it is there with the value given.
FormatByPrecedence(targetCounts) ==
  IF targetCounts THEN call.searchParams.target[1]
  ELSE IF call.searchParams.flags # {}
  THEN CHOOSE f \in call.searchParams.flags :
         \A g \in call.searchParams.flags : FlagRank(f) <= FlagRank(g)
  ELSE IF SniffedSingBox THEN "singbox"
  ELSE "clash"

\* C28 as stated: the target format is the value of the target parameter if
\* it is present; otherwise the first of the legacy flags clash, singbox,
\* surge, loon, base64 in the query; otherwise singbox if the User-Agent
\* contains 'sing-box' (in any case); otherwise clash.
C28_TargetFormatPrecedence ==
  TargetDetermined =>
    call.result = FormatByPrecedence(call.searchParams.target # <<>>)

\* C28, amended: as above, where the target parameter decides only if it is
\* present with a non-empty value.
C28_TargetFormatPrecedence_NonEmptyTarget ==
  TargetDetermined =>
    call.result = FormatByPrecedence(call.searchParams.target # <<>>
                                       /\ call.searchParams.target[1] # "")

\* A request with an empty target parameter, the flags loon and base64 and a
\* sing-box User-Agent has been given the format loon.
C28_Witness ==
  /\ TargetDetermined
  /\ call.searchParams = [target |-> <<"">>, flags |-> {"loon", "base64"}]
  /\ call.header = <<"SFA ", "Sing-Box">>
  /\ call.result = "loon"

\* C29: the outbound User-Agent resolver returns the same canonical
\* User-Agent string for every input, an empty, null or undefined declared
\* User-Agent included.
C29_CanonicalUserAgent ==
  call.fn = "getProcessedUserAgent" => call.result = JsString("v2rayN/7.23")

\* The number of characters of a message kept as its segments.
RECURSIVE MessageLength(_)
MessageLength(msg) == IF msg = <<>> THEN 0 ELSE Head(msg).n + MessageLength(Tail(msg))

\* The response carries a final body: the subscription itself, as the base64
\* of the node list or as the converter's text, and not an error message.
FinalBody(resp) == resp.kind \in {"base64", "converted"}

DiagnosticHeaders == {"X-MiSub-Fallback", "X-MiSub-Error"}

\* The degraded paths: the base64 list given to a NekoBox client in place of a
\* conversion, and the base64 list given when every converter candidate failed.
NekoBoxDegraded(q) == q.neko /\ HasRealityNode(q.nodes) /\ q.target # "base64"
DegradedPath(q) == NekoBoxDegraded(q) \/ AllCandidatesFailed(q)

AggReturned == call.fn = "generateCombinedNodeList" /\ call.joined

\* C31: aggregation of the node list always terminates, also when an upstream
\* source never answers or answers with headers and never finishes the body:
\* every call of generateCombinedNodeList that got past its manual nodes
\* eventually returns its list.
C31_AggregationTerminates ==
  (call.fn = "generateCombinedNodeList" /\ ~call.threw) ~> AggReturned

\* The line is a node link: an allow-listed scheme and '://' at its start,
\* and no line break in it.
IsNodeLine(line) ==
  /\ line # <<>>
  /\ line[1].k = "run" /\ line[1].scheme \in NodeSchemes /\ line[1].sep
  /\ \A i \in 1..Len(line) : line[i].k # "lf"

\* C32: every line of the aggregated node list starts with an allow-listed
\* scheme followed by '://'; lines of fetched or manual content with any other
\* prefix (comments, HTML, http urls, blank lines) do not reach the output,
\* for base64-wrapped and plain content, with \r\n and with \n line endings.
C32_OnlyNodeLinesInOutput ==
  call.fn = "lines" => \A i \in 1..Len(call.result) : IsNodeLine(call.result[i])

\* A base64-wrapped body with \r\n line endings that holds a comment naming a
\* node link, beside manual entries that hold an http url: node links are
\* returned, from the feed and from the manual entries.
C32_Witness ==
  /\ call.fn = "lines"
  /\ call.body.enc = "base64"
  /\ \E i \in 1..(Len(call.body.text) - 1) :
       call.body.text[i].k = "cr" /\ call.body.text[i + 1].k = "lf"
  /\ \E i \in 1..Len(call.body.text) : call.body.text[i] = Run("#", FALSE, TRUE)
  /\ \E u \in Range(call.urls) : \E i \in 1..Len(u) : u[i] = Run("https", TRUE, FALSE)
  /\ <<Run("ss", TRUE, FALSE)>> \in Range(call.result)
  /\ Len(call.result) = 2

\* The conversion-service hostname in force for the call: the stored one, or
\* the default one when no settings are read.
ConfiguredSubConverter ==
  IF call.read = "stored" THEN settings.subConverter ELSE DefaultSubConverter

\* C33: after a tier-1 failure the indirect tier is attempted exactly when a
\* conversion-service hostname is configured, whichever storage backend (KV
\* or D1) is bound.
C33_IndirectTierIffConfigured ==
  ( /\ call.fn = "fetch" /\ call.pc = "returned"
    /\ ~Tier1Succeeds(call.t1)
    /\ (call.hasKV \/ call.hasDB) ) =>
      (includes(call.contacted, "subconverter") <=> ConfiguredSubConverter # "")

\* The same with MISUB_KV bound.
C33_IndirectTierIffConfigured_KV ==
  ( /\ call.fn = "fetch" /\ call.pc = "returned"
    /\ ~Tier1Succeeds(call.t1)
    /\ call.hasKV ) =>
      (includes(call.contacted, "subconverter") <=> ConfiguredSubConverter # "")

\* The source is an HTTP feed: its url has the scheme http or https, in
\* whatever case the scheme is written.
IsHttpFeed(item) == LowerStartsWithHttp(item)

\* The stored sources that are enabled and that the profile lists: feeds in
\* subscriptions, manual nodes in manualNodes.
ListedAndEnabled(misubs, profile) ==
  { item \in Range(misubs) :
      /\ item.enabled
      /\ IF IsHttpFeed(item) THEN item.id \in profile.subscriptions
         ELSE item.id \in profile.manualNodes }

\* C34: for a request to an enabled, unexpired profile the sources resolved
\* are exactly the stored sources that are enabled and whose id is in the
\* profile's subscriptions (HTTP feeds) or manualNodes (manual nodes).
C34_ProfileSelectsListedEnabledSources ==
  call.fn = "membership" =>
    Range(call.targetMisubs) = ListedAndEnabled(call.misubs, call.profile)

\* The same for the handler and sources whose scheme is in lower case.
C34_LowerCaseHandler ==
  (call.fn = "membership" /\ call.impl = "handler") =>
    LET lower == SelectSeq(call.misubs, LAMBDA item : item.scheme = ToLowerCase(item.scheme))
    IN Range(call.targetMisubs) \cap Range(lower) = ListedAndEnabled(lower, call.profile)

\* C36: each stored source is classified the same way, HTTP feed or manual
\* node, at every point of one resolution: the sources the membership filter
\* admitted as subscriptions, the sources whose names are stored as source
\* names and the sources the aggregation fetches are the same, also for urls
\* whose scheme is written in upper or mixed case.
C36_OneClassificationPerSource ==
  call.fn = "membership" =>
    /\ call.asSubscription = call.httpSubs
    /\ call.sourceNames = NamesOf(call.httpSubs)

\* Every request followed has completed, its deferred write included.
CountQuiescent == call.fn = "downloadCount" /\ \A r \in RIDs : call.puts[r] = <<>>

\* C35: after n countable profile requests have completed together with their
\* deferred writes, in any interleaving with each other and with admin saves
\* of the profile list, the stored downloadCount has grown by exactly n and
\* no saved change to the profile list has been overwritten.
C35_DownloadCountExact ==
  CountQuiescent =>
    /\ call.stored.downloadCount = call.counted
    /\ call.stored.name = call.saved


\* A step deletes the legacy record.
LegacyDeleted ==
  call.fn = "migrate" /\ call'.fn = "migrate"
  /\ call.kv.old # KvNull /\ call'.kv.old = KvNull

\* A call made when the new subscription record existed takes a step.
StepOfLateCall ==
  call.fn = "migrate" /\ call'.fn = "migrate"
  /\ \E r \in RIDs : call.calls[r].madeWithSubs /\ call'.calls[r] # call.calls[r]
                     /\ call.calls[r].pc \notin {"idle", "done"}

ResolvesToD1 == call.d1["settings"].storageType = "d1"

\* C38: after migrateKVToD1, whenever the D1 settings record carries
\* storageType 'd1', every subscription-list and profile-list record that
\* exists in KV has been copied to D1 with equal content; and the migration
\* leaves all KV records unchanged.
C38_D1ActiveOnlyWhenComplete ==
  (call.fn = "migrateKVToD1" /\ call.done = Len(MigratedKeys)) =>
    /\ ResolvesToD1 =>
         \A k \in {"subscriptions", "profiles"} :
           call.kv[k].data # KvNull => call.d1[k] = call.kv[k]
    /\ call.kv = call.kvBefore

\* The migration leaves the KV records as they were.
C38_KVUnchanged ==
  call.fn = "migrateKVToD1" => call.kv = call.kvBefore

\* C39: after conditionalKVPut(env, key, newData) returns, the value stored
\* under key is equal to newData: it writes and returns true whenever newData
\* differs from the stored value in any field at any depth, also for arrays
\* of objects, and skips the write, returning false, only when they are equal.
C39_StoredEqualsNewData ==
  call.fn = "conditionalKVPut" =>
    /\ call.stored = call.newData
    /\ call.returned <=> (~call.read \/ call.before # call.newData)

\* The cookie is a valid session at time t: it was signed under COOKIE_SECRET
\* and its issue time is less than 8 hours old.
ValidSession(cookie, t) ==
  /\ call.env.COOKIE_SECRET # ""
  /\ cookie.parts = 2 /\ cookie.key = call.env.COOKIE_SECRET
  /\ t - cookie.data < SessionDuration

====
